---- MODULE Spec2Model ----
(***************************************************************************)
(* A model of ws_subscription/src/raydium.rs: the log-subscription loop    *)
(* (execute_demo), the two extractors (process_new_pool_detected,           *)
(* process_new_swap_detected) and the trade executor (swap_exact_input).    *)
(*                                                                          *)
(* Each component has its own specification over the shared variables:      *)
(*   SpecTrade  swap_exact_input, one invocation                            *)
(*   SpecSwap   process_new_swap_detected, one invocation                   *)
(*   SpecDemo   execute_demo, the subscription loop                         *)
(*   SpecPool   process_new_pool_detected, a series of calls                *)
(*   SpecBuild  swap_exact_input, the construction of the swap instruction  *)
(*   SpecCommand  the buy-on-creation-targetted-pubkey command, a series of *)
(*              runs (commands/buy_targetted_pubkey.rs)                     *)
(* A Rust panic (unwrap/expect on None/Err, index out of bounds) is the     *)
(* outcome "panic"; an Err(..) returned to the caller is "err".             *)
(***************************************************************************)
EXTENDS Integers, Sequences, FiniteSets, TLC

VARIABLES
    \* ---- the ledger, as seen through the RPC client
    chain_tip,        \* index of the latest block; its hash is the block reference
    \* ---- swap_exact_input
    t_pc,             \* position in swap_exact_input
    t_result,         \* "running", or how the invocation ended: "ok" | "err" | "panic"
    message,          \* the VersionedMessage being (re)signed
    transaction,      \* the VersionedTransaction last produced by try_new
    t_fetches,        \* number of get_latest_blockhash calls made so far
    t_sim,            \* outcome of simulate_transaction: "none" | "ok" | "exec_err" | "rpc_err"
    t_simulated,      \* the transactions handed to simulate_transaction, in order
    t_submitted,      \* the transactions handed to send_and_confirm_transaction, in order
    t_send,           \* outcome of send_and_confirm_transaction
    t_steps,          \* history: the RPC and signing steps taken, in order
    \* ---- process_new_swap_detected
    sx_pc,            \* position in process_new_swap_detected
    sx_result,        \* "running", or how the call ended: "ok" | "err" | "panic"
    sx_resp,          \* what the ledger answers for the signature
    sx_i,             \* index (from 1) of the top-level instruction being visited
    sx_g,             \* 0 outside the inner scan, else index of the inner group
    sx_k,             \* index of the inner instruction within group sx_g
    token_in,
    token_out,
    amount_in,
    amount_out,
    sx_scanned,       \* history: the inner instructions visited by the scan, in
                      \* order, each with the two legs it was compared against
    sx_report,        \* what was printed: None or Some(the four fields)
    \* ---- execute_demo
    d_pc,             \* position in execute_demo
    d_result,         \* "running", or how execute_demo ended: "ok" | "err" | "panic"
    subscribed,       \* logs_subscribe has succeeded
    unsubscribed,     \* the unsubscribe handle has been invoked
    stream,           \* notifications that arrived and are not received yet,
                      \* in arrival order, each named by its arrival number
    stream_state,     \* "open" | "closed" | "disconnected"
    arrived,          \* number of notifications that have arrived
    response,         \* the notification being processed (its value)
    d_line,           \* index (from 1) of the log line being evaluated
    d_step,           \* which test of the loop body comes next: "pool" | "swap"
    d_started,        \* history: arrival numbers, in the order processing began
    d_finished,       \* history: arrival numbers, in the order processing ended
    d_pool_calls,     \* process_new_pool_detected calls made for this notification
    d_swap_calls,     \* process_new_swap_detected calls made for this notification
    d_failed,         \* processing calls that returned an error or panicked
    \* ---- process_new_pool_detected
    px_pc,            \* position in process_new_pool_detected; "idle" between calls
    px_result,        \* "running", or how the call ended: "ok" | "err" | "panic"
    px_resp,          \* what the ledger answers for the signature
    px_i,             \* index (from 1) of the top-level instruction being visited
    px_events,        \* what the call printed so far: one event per rendered pool
    px_calls,         \* number of calls made so far
    px_kept,          \* history: None, or one earlier call, with how it ended
    \* ---- swap_exact_input: the swap instruction
    b_pc,             \* position in the construction of the instruction
    owner,            \* owner.pubkey()
    amm_keys,         \* the quote: AmmKeys
    market_keys,      \* the quote: MarketKeys
    b_amount_in,      \* amount_in: u64
    b_min_amount_out, \* min_amount_out: u64
    swap_data,        \* Vec<u8>
    swap_accounts,    \* Vec<AccountMeta>
    swap_ix,          \* None, or Some(the Instruction)
    \* ---- the buy-on-creation-targetted-pubkey command
    c_pc,             \* position in BuyOnCreationTargettedPubkey::execute; "idle" between runs
    c_result,         \* "running", or how the invocation ended: "ok" | "err"
    c_args,           \* the command line, as clap matched it
    c_runs,           \* number of invocations so far
    c_calls           \* history: the execute_on_creation calls made, each with
                      \* the command line of its invocation

tradeVars == <<t_pc, t_result, message, transaction, t_fetches, t_sim,
               t_simulated, t_submitted, t_send, t_steps>>

ledgerVars == <<chain_tip>>

swapVars == <<sx_pc, sx_result, sx_resp, sx_i, sx_g, sx_k, token_in, token_out,
              amount_in, amount_out, sx_scanned, sx_report>>

demoVars == <<d_pc, d_result, subscribed, unsubscribed, stream, stream_state,
              arrived, response, d_line, d_step, d_started, d_finished,
              d_pool_calls, d_swap_calls, d_failed>>

poolVars == <<px_pc, px_result, px_resp, px_i, px_events, px_calls, px_kept>>

buildVars == <<b_pc, owner, amm_keys, market_keys, b_amount_in, b_min_amount_out,
               swap_data, swap_accounts, swap_ix>>

commandVars == <<c_pc, c_result, c_args, c_runs, c_calls>>

vars == <<chain_tip, t_pc, t_result, message, transaction, t_fetches, t_sim,
          t_simulated, t_submitted, t_send, t_steps,
          sx_pc, sx_result, sx_resp, sx_i, sx_g, sx_k, token_in, token_out,
          amount_in, amount_out, sx_scanned, sx_report,
          d_pc, d_result, subscribed, unsubscribed, stream, stream_state,
          arrived, response, d_line, d_step, d_started, d_finished,
          d_pool_calls, d_swap_calls, d_failed,
          px_pc, px_result, px_resp, px_i, px_events, px_calls, px_kept,
          b_pc, owner, amm_keys, market_keys, b_amount_in, b_min_amount_out,
          swap_data, swap_accounts, swap_ix,
          c_pc, c_result, c_args, c_runs, c_calls>>

\* ---------------------------------------------------------------- bounds

\* The ledger produces at most this many new blocks during one run.
MaxSlots == 3

\* A transaction has at most this many top-level instructions.
MaxInstructions == 2

\* A transaction's metadata has at most this many inner-instruction groups.
MaxGroups == 2

\* The inner-instruction groups of a transaction hold at most this many
\* instructions in total.
MaxInner == 2

\* At most this many notifications arrive on the log stream during one run.
MaxNotifs == 3

\* A notification carries at most this many log lines.
MaxLines == 2

\* process_new_pool_detected is called at most this many times during one run.
MaxCalls == 3

\* The command is invoked at most this many times.
MaxRuns == 2

\* ---------------------------------------------------------------- ledger

NoBlockhash == [hash |-> -1, fetch |-> 0]

\* A new block lands: get_latest_blockhash answers with a newer reference.
LedgerAdvance ==
    /\ chain_tip < MaxSlots
    /\ chain_tip' = chain_tip + 1

\* ------------------------------------------------- the ledger's answers

None == [some |-> FALSE]
Some(v) == [some |-> TRUE, value |-> v]

SeqsUpTo(S, n) == UNION {[1..k -> S] : k \in 0..n}

RAYDIUM_LIQUIDITY_POOL_V4_PROGRAM_ID == "675kPX9MHTjS2zt1qfr1NYHuzeLXfQM9H24wFSUt1Mp8"
OTHER_PROGRAM_ID == "ComputeBudget111111111111111111111111111111"

\* UiInstruction::Compiled
CompiledIx == [kind |-> "compiled"]
\* UiInstruction::Parsed(UiParsedInstruction::Parsed(..)): parsed is the JSON
\* object {"type": .., "info": {..}}
ParsedIx(type, info) == [kind |-> "parsed", parsed |-> [type |-> type, info |-> info]]
\* UiInstruction::Parsed(UiParsedInstruction::PartiallyDecoded(..))
PartiallyDecodedIx(program_id, accounts) ==
    [kind |-> "partially_decoded", program_id |-> program_id, accounts |-> accounts]

\* accounts[i], indexed from 0 as in the source; only used below its length.
At(accounts, i) == accounts[i + 1]

\* get_transaction_with_config failed (transport error, or the signature is
\* not indexed yet).
RpcError == [rpc |-> "err"]
\* EncodedConfirmedTransactionWithStatusMeta: transaction.meta, transaction.transaction
RpcOk(meta, tx) == [rpc |-> "ok", meta |-> meta, transaction |-> tx]

\* EncodedTransaction::Json with UiMessage::Parsed
JsonParsedTx(instructions) ==
    [encoding |-> "json", message |-> "parsed", instructions |-> instructions]
\* EncodedTransaction::Json with UiMessage::Raw
JsonRawTx == [encoding |-> "json", message |-> "raw", instructions |-> <<>>]
\* EncodedTransaction::Binary / LegacyBinary / Accounts
BinaryTx == [encoding |-> "binary", message |-> "none", instructions |-> <<>>]

\* UiTransactionStatusMeta, the two fields the extractors read
Meta(inner_instructions, post_token_balances) ==
    [inner_instructions |-> inner_instructions,
     post_token_balances |-> post_token_balances]

\* UiInnerInstructions
InnerGroup(index, instructions) == [index |-> index, instructions |-> instructions]

\* The instruction list the two extractors loop over: the `if let` pair
\* EncodedTransaction::Json / UiMessage::Parsed, else nothing is visited.
ParsedInstructions(tx) ==
    IF tx.encoding = "json" /\ tx.message = "parsed" THEN tx.instructions ELSE <<>>

\* ------------------------------------------------- get_transaction_data

Panic == [status |-> "panic"]

\* .await.unwrap() on the RPC result, then transaction.transaction.meta.unwrap()
get_transaction_data(resp) ==
    IF resp.rpc = "err" THEN Panic
    ELSE IF ~resp.meta.some THEN Panic
    ELSE [status |-> "ok", metadata |-> resp.meta.value,
          transaction |-> resp.transaction]

\* ------------------------------------------------- process_new_swap_detected

\* let mut token_in = String::new(); .. let mut amount_out = "0".to_owned();
SwapDefaults == [token_in |-> "", token_out |-> "", amount_in |-> "0", amount_out |-> "0"]

\* Mutant: the two amounts are attributed to the wrong sides.
ApplyTransfer_inverted(st, token_account_a, token_account_b, info) ==
    IF token_account_a = info.source
    THEN [st EXCEPT !.token_in = token_account_a, !.amount_in = info.amount]
    ELSE IF token_account_b = info.source
    THEN [st EXCEPT !.token_in = token_account_b, !.amount_in = info.amount]
    ELSE IF token_account_a = info.destination
    THEN [st EXCEPT !.token_out = token_account_a, !.amount_out = info.amount]
    ELSE IF token_account_b = info.destination
    THEN [st EXCEPT !.token_out = token_account_b, !.amount_out = info.amount]
    ELSE st

\* Mutant: the source tests and the destination tests are two separate
\* if statements, so one transfer can set both sides.
ApplyTransfer_bothSides(st, token_account_a, token_account_b, info) ==
    LET s1 == IF token_account_a = info.source
              THEN [st EXCEPT !.token_in = token_account_a, !.amount_out = info.amount]
              ELSE IF token_account_b = info.source
              THEN [st EXCEPT !.token_in = token_account_b, !.amount_out = info.amount]
              ELSE st
    IN IF token_account_a = info.destination
       THEN [s1 EXCEPT !.token_out = token_account_a, !.amount_in = info.amount]
       ELSE IF token_account_b = info.destination
       THEN [s1 EXCEPT !.token_out = token_account_b, !.amount_in = info.amount]
       ELSE s1

\* the if / else if chain over source and destination
ApplyTransfer(st, token_account_a, token_account_b, info) ==
    IF token_account_a = info.source
    THEN [st EXCEPT !.token_in = token_account_a, !.amount_out = info.amount]
    ELSE IF token_account_b = info.source
    THEN [st EXCEPT !.token_in = token_account_b, !.amount_out = info.amount]
    ELSE IF token_account_a = info.destination
    THEN [st EXCEPT !.token_out = token_account_a, !.amount_in = info.amount]
    ELSE IF token_account_b = info.destination
    THEN [st EXCEPT !.token_out = token_account_b, !.amount_in = info.amount]
    ELSE st

\* parsed.get("type").unwrap() == "transfer" and info.get("amount") is present
IsTransferWithAmount(ix) ==
    /\ ix.kind = "parsed"
    /\ ix.parsed.type = "transfer"
    /\ "amount" \in DOMAIN ix.parsed.info

\* Mutant: a transfer without an amount is taken as a transfer of "0".
ScanInnerInstruction_zeroAmount(st, token_account_a, token_account_b, ix) ==
    IF IsTransferWithAmount(ix)
    THEN ApplyTransfer(st, token_account_a, token_account_b, ix.parsed.info)
    ELSE IF ix.kind = "parsed" /\ ix.parsed.type = "transfer"
    THEN ApplyTransfer(st, token_account_a, token_account_b,
                       [source |-> ix.parsed.info.source,
                        destination |-> ix.parsed.info.destination,
                        amount |-> "0"])
    ELSE st

\* the body of the innermost for loop, for one inner instruction
ScanInnerInstruction(st, token_account_a, token_account_b, ix) ==
    IF IsTransferWithAmount(ix)
    THEN ApplyTransfer(st, token_account_a, token_account_b, ix.parsed.info)
    ELSE st

\* the program-id test on a top-level instruction
IsAmmInstruction(ix) ==
    /\ ix.kind = "partially_decoded"
    /\ ix.program_id = RAYDIUM_LIQUIDITY_POOL_V4_PROGRAM_ID

\* &parsed_instruction.accounts[5], [6] and inner_instructions.clone().unwrap():
\* whether the visit of an AMM instruction gets as far as the inner scan
SwapVisitPanics(ix, metadata) ==
    \/ Len(ix.accounts) <= 5
    \/ Len(ix.accounts) <= 6
    \/ ~metadata.inner_instructions.some

SwapState == [token_in |-> token_in, token_out |-> token_out,
              amount_in |-> amount_in, amount_out |-> amount_out]

SwapSetState(st) ==
    /\ token_in' = st.token_in
    /\ token_out' = st.token_out
    /\ amount_in' = st.amount_in
    /\ amount_out' = st.amount_out

SwapMetadata == sx_resp.meta.value
SwapInstructions == ParsedInstructions(sx_resp.transaction)
SwapGroups == SwapMetadata.inner_instructions.value

SwapPanic ==
    /\ sx_pc' = "done"
    /\ sx_result' = "panic"

\* get_transaction_data(&signature, rpc_client).await?, then the four locals
SwapFetch ==
    /\ sx_pc = "fetch"
    /\ IF get_transaction_data(sx_resp).status = "panic"
       THEN SwapPanic
       ELSE sx_pc' = "scan" /\ sx_result' = sx_result
    /\ sx_i' = 1
    /\ sx_g' = 0
    /\ SwapSetState(SwapDefaults)
    /\ UNCHANGED <<sx_resp, sx_k, sx_scanned, sx_report>>

\* one turn of `for instruction in ui_parsed_message.instructions`, up to the
\* start of the inner scan
SwapTopInstruction ==
    /\ sx_pc = "scan"
    /\ sx_g = 0
    /\ sx_i <= Len(SwapInstructions)
    /\ LET ix == SwapInstructions[sx_i] IN
         IF ~IsAmmInstruction(ix)
         THEN /\ sx_i' = sx_i + 1
              /\ UNCHANGED <<sx_pc, sx_result, sx_g, sx_k>>
         ELSE IF SwapVisitPanics(ix, SwapMetadata)
         THEN /\ SwapPanic
              /\ UNCHANGED <<sx_i, sx_g, sx_k>>
         ELSE /\ sx_g' = 1
              /\ sx_k' = 1
              /\ UNCHANGED <<sx_pc, sx_result, sx_i>>
    /\ UNCHANGED <<sx_resp, token_in, token_out, amount_in, amount_out,
                   sx_scanned, sx_report>>

\* one turn of the two nested loops over the inner-instruction groups of the
\* transaction, for the AMM instruction sx_i
SwapInnerInstruction ==
    /\ sx_pc = "scan"
    /\ sx_g >= 1
    /\ LET ix == SwapInstructions[sx_i]
           token_account_a == At(ix.accounts, 5)
           token_account_b == At(ix.accounts, 6)
       IN
         IF sx_g > Len(SwapGroups)
         THEN /\ sx_i' = sx_i + 1
              /\ sx_g' = 0
              /\ UNCHANGED <<sx_k, token_in, token_out, amount_in, amount_out,
                             sx_scanned>>
         ELSE IF sx_k > Len(SwapGroups[sx_g].instructions)
         THEN /\ sx_g' = sx_g + 1
              /\ sx_k' = 1
              /\ UNCHANGED <<sx_i, token_in, token_out, amount_in, amount_out,
                             sx_scanned>>
         ELSE LET inner == SwapGroups[sx_g].instructions[sx_k] IN
              /\ SwapSetState(ScanInnerInstruction(SwapState, token_account_a,
                                                   token_account_b, inner))
              /\ sx_scanned' = Append(sx_scanned,
                                       [instruction |-> inner,
                                        token_account_a |-> token_account_a,
                                        token_account_b |-> token_account_b])
              /\ sx_k' = sx_k + 1
              /\ UNCHANGED <<sx_i, sx_g>>
    /\ UNCHANGED <<sx_pc, sx_result, sx_resp, sx_report>>

\* the println! block and Ok(())
SwapReport ==
    /\ sx_pc = "scan"
    /\ sx_g = 0
    /\ sx_i > Len(SwapInstructions)
    /\ sx_report' = Some(SwapState)
    /\ sx_pc' = "done"
    /\ sx_result' = "ok"
    /\ UNCHANGED <<sx_resp, sx_i, sx_g, sx_k, token_in, token_out, amount_in,
                   amount_out, sx_scanned>>

SwapFrame == UNCHANGED <<ledgerVars, tradeVars, demoVars, poolVars, buildVars, commandVars>>

process_new_swap_detected ==
    \/ (SwapFetch /\ SwapFrame)
    \/ (SwapTopInstruction /\ SwapFrame)
    \/ (SwapInnerInstruction /\ SwapFrame)
    \/ (SwapReport /\ SwapFrame)

\* the whole of the scan as a function of the ledger's answer, for callers
\* that only see how the call ended (execute_demo)
RECURSIVE SwapScanInner(_, _, _, _)
SwapScanInner(st, token_account_a, token_account_b, flat) ==
    IF flat = <<>> THEN st
    ELSE SwapScanInner(ScanInnerInstruction(st, token_account_a, token_account_b, Head(flat)),
                       token_account_a, token_account_b, Tail(flat))

RECURSIVE FlatInner(_)
FlatInner(groups) ==
    IF groups = <<>> THEN <<>>
    ELSE Head(groups).instructions \o FlatInner(Tail(groups))

RECURSIVE SwapScan(_, _, _)
SwapScan(ixs, metadata, st) ==
    IF ixs = <<>> THEN [status |-> "ok", event |-> st]
    ELSE IF ~IsAmmInstruction(Head(ixs)) THEN SwapScan(Tail(ixs), metadata, st)
    ELSE IF SwapVisitPanics(Head(ixs), metadata) THEN Panic
    ELSE SwapScan(Tail(ixs), metadata,
                  SwapScanInner(st, At(Head(ixs).accounts, 5), At(Head(ixs).accounts, 6),
                                FlatInner(metadata.inner_instructions.value)))

SwapExtract(resp) ==
    LET data == get_transaction_data(resp) IN
      IF data.status = "panic" THEN Panic
      ELSE SwapScan(ParsedInstructions(data.transaction), data.metadata, SwapDefaults)

\* ------------------------------------------------- process_new_pool_detected

\* post_token_balances.iter().find(|x| x.mint == mint): index of the first
\* entry of that mint, 0 when there is none
FindMint(balances, mint) ==
    IF \E i \in 1..Len(balances) : balances[i].mint = mint
    THEN CHOOSE i \in 1..Len(balances) :
           /\ balances[i].mint = mint
           /\ \A j \in 1..(i - 1) : balances[j].mint # mint
    ELSE 0

\* Mutant: each side is printed with the other side's vault account.
render_pool_info_crossed(amm, token_address_a, token_account_a, token_account_b, token_address_b, metadata) ==
    IF ~metadata.post_token_balances.some THEN Panic
    ELSE LET post_token_balances == metadata.post_token_balances.value
             a == FindMint(post_token_balances, token_address_a)
             b == FindMint(post_token_balances, token_address_b)
         IN IF a = 0 THEN Panic
            ELSE IF b = 0 THEN Panic
            ELSE [status |-> "ok",
                  event |-> [ammAddress |-> amm,
                             tokenA |-> [mintAddress |-> token_address_a,
                                         vaultAccount |-> token_account_b,
                                         initialBalance |-> post_token_balances[a].amount],
                             tokenB |-> [mintAddress |-> token_address_b,
                                         vaultAccount |-> token_account_a,
                                         initialBalance |-> post_token_balances[b].amount]]]

\* render_pool_info: the three unwraps, then the printed event
render_pool_info(amm, token_address_a, token_account_a, token_account_b, token_address_b, metadata) ==
    IF ~metadata.post_token_balances.some THEN Panic
    ELSE LET post_token_balances == metadata.post_token_balances.value
             a == FindMint(post_token_balances, token_address_a)
             b == FindMint(post_token_balances, token_address_b)
         IN IF a = 0 THEN Panic
            ELSE IF b = 0 THEN Panic
            ELSE [status |-> "ok",
                  event |-> [ammAddress |-> amm,
                             tokenA |-> [mintAddress |-> token_address_a,
                                         vaultAccount |-> token_account_a,
                                         initialBalance |-> post_token_balances[a].amount],
                             tokenB |-> [mintAddress |-> token_address_b,
                                         vaultAccount |-> token_account_b,
                                         initialBalance |-> post_token_balances[b].amount]]]

\* the visit of one AMM instruction: accounts[4], [8], [10], [9], [11], the
\* balance call (`?`), render_pool_info (`?`)
PoolVisit(ix, metadata, balance_ok) ==
    IF Len(ix.accounts) <= 11 THEN Panic
    ELSE IF ~balance_ok THEN [status |-> "err"]
    ELSE render_pool_info(At(ix.accounts, 4), At(ix.accounts, 8), At(ix.accounts, 10),
                          At(ix.accounts, 11), At(ix.accounts, 9), metadata)

RECURSIVE PoolScan(_, _, _, _)
\* the loop over the top-level instructions; fail_at: which of the
\* get_token_account_balance calls fails (0: none)
PoolScan(ixs, metadata, fail_at, events) ==
    IF ixs = <<>> THEN [status |-> "ok", events |-> events]
    ELSE IF ~IsAmmInstruction(Head(ixs)) THEN PoolScan(Tail(ixs), metadata, fail_at, events)
    ELSE LET r == PoolVisit(Head(ixs), metadata, fail_at # 1) IN
           IF r.status # "ok" THEN [status |-> r.status, events |-> events]
           ELSE PoolScan(Tail(ixs), metadata, IF fail_at = 0 THEN 0 ELSE fail_at - 1,
                         Append(events, r.event))

process_new_pool_detected(resp, fail_at) ==
    LET data == get_transaction_data(resp) IN
      IF data.status = "panic" THEN [status |-> "panic", events |-> <<>>]
      ELSE PoolScan(ParsedInstructions(data.transaction), data.metadata, fail_at, <<>>)

\* ---- the transactions process_new_swap_detected is run on

SwapAccounts == {"A", "B", "U"}

\* The code never compares amounts, so the k-th inner instruction of a
\* transaction carries the amount "10", "20", ..: distinct amounts tell which
\* transfer a reported amount came from.
AmountAt(k) == ToString(10 * k)

\* what an inner instruction is, up to its amount: a token transfer, a
\* transfer without an amount field (the system program's, which carries
\* lamports), another parsed instruction, an unparsed one
InnerShapes ==
    [shape : {"transfer"}, source : SwapAccounts, destination : SwapAccounts,
     amount : {TRUE}]
    \cup {[shape |-> "transfer", source |-> "U", destination |-> "A", amount |-> FALSE],
          [shape |-> "transfer", source |-> "B", destination |-> "U", amount |-> FALSE],
          [shape |-> "closeAccount"], [shape |-> "compiled"]}

InnerInstructionAt(shape, k) ==
    CASE shape.shape = "compiled" -> CompiledIx
      [] shape.shape = "closeAccount" -> ParsedIx("closeAccount", [account |-> "U"])
      [] OTHER ->
           IF shape.amount
           THEN ParsedIx("transfer", [source |-> shape.source,
                                      destination |-> shape.destination,
                                      amount |-> AmountAt(k)])
           ELSE ParsedIx("transfer", [source |-> shape.source,
                                      destination |-> shape.destination])

\* the flat runs of at most MaxInner inner instructions
FlatInnerRuns ==
    {[k \in 1..Len(shapes) |-> InnerInstructionAt(shapes[k], k)] :
       shapes \in SeqsUpTo(InnerShapes, MaxInner)}

Min(a, b) == IF a <= b THEN a ELSE b

\* where a flat run is cut into groups: n - 1 ascending cut positions make n
\* groups (1 <= n <= MaxGroups), some of them possibly empty
Cuts ==
    UNION {{c \in [1..(n - 1) -> 0..MaxInner] :
              \A i, j \in 1..(n - 1) : i <= j => c[i] <= c[j]} :
           n \in 1..MaxGroups}

\* the groups a flat run falls into when cut at c
GroupsOf(flat, c) ==
    LET n == Len(c) + 1
        lo(j) == IF j = 1 THEN 0 ELSE Min(c[j - 1], Len(flat))
        hi(j) == IF j = n THEN Len(flat) ELSE Min(c[j], Len(flat))
    IN [j \in 1..n |-> InnerGroup(j - 1, SubSeq(flat, lo(j) + 1, hi(j)))]

\* metadata.inner_instructions, when present: no group, or a flat run cut
\* into at most MaxGroups groups
GroupSeqs ==
    {<<>>} \cup {GroupsOf(flat, c) : flat \in FlatInnerRuns, c \in Cuts}

\* an instruction of the AMM program with n accounts: accounts 5 and 6 are
\* the legs of a swap
AmmAccounts(n) == [i \in 1..n |-> IF i = 6 THEN "A" ELSE IF i = 7 THEN "B" ELSE "x"]

AmmSwapIx == PartiallyDecodedIx(RAYDIUM_LIQUIDITY_POOL_V4_PROGRAM_ID, AmmAccounts(7))

SwapTopInstructions ==
    {PartiallyDecodedIx(RAYDIUM_LIQUIDITY_POOL_V4_PROGRAM_ID, AmmAccounts(n)) :
       n \in {5, 6, 7, 18}}
    \cup {PartiallyDecodedIx(OTHER_PROGRAM_ID, <<"U">>),
          ParsedIx("transfer", [source |-> "A", destination |-> "B", lamports |-> "1"])}

\* the user pays 10 into leg A, the pool pays 20 out of leg B
TwoTransferGroups ==
    <<InnerGroup(0, <<ParsedIx("transfer", [source |-> "U", destination |-> "A",
                                            amount |-> AmountAt(1)]),
                      ParsedIx("transfer", [source |-> "B", destination |-> "U",
                                            amount |-> AmountAt(2)])>>)>>

\* The answers process_new_swap_detected is run on: a failed fetch, missing
\* metadata; one swap instruction with every inner-instruction list; every
\* top-level instruction list with no, an empty and a two-transfer inner list.
SwapResponses ==
    {RpcError, RpcOk(None, JsonParsedTx(<<AmmSwapIx>>))}
    \cup {RpcOk(Some(Meta(Some(groups), None)), JsonParsedTx(<<AmmSwapIx>>)) :
            groups \in GroupSeqs}
    \cup {RpcOk(Some(Meta(inner, None)), tx) :
            inner \in {None, Some(<<>>), Some(TwoTransferGroups)},
            tx \in {JsonRawTx, BinaryTx} \cup
                   {JsonParsedTx(ixs) : ixs \in SeqsUpTo(SwapTopInstructions, MaxInstructions)}}

SwapIdle ==
    /\ sx_pc = "fetch"
    /\ sx_result = "running"
    /\ sx_resp = RpcError
    /\ sx_i = 0
    /\ sx_g = 0
    /\ sx_k = 0
    /\ token_in = ""
    /\ token_out = ""
    /\ amount_in = "0"
    /\ amount_out = "0"
    /\ sx_scanned = <<>>
    /\ sx_report = None

\* ------------------------------------------------------------ execute_demo

\* ---- strings: a log line is the sequence of its characters

UpperCase == <<"A", "B", "C", "D", "E", "F", "G", "H", "I", "J", "K", "L", "M", "N", "O", "P", "Q", "R", "S", "T", "U", "V", "W", "X", "Y", "Z">>
LowerCase == <<"a", "b", "c", "d", "e", "f", "g", "h", "i", "j", "k", "l", "m", "n", "o", "p", "q", "r", "s", "t", "u", "v", "w", "x", "y", "z">>

\* char::to_lowercase, on the ASCII letters
LowerChar(c) ==
    IF \E i \in 1..26 : UpperCase[i] = c
    THEN LowerCase[CHOOSE i \in 1..26 : UpperCase[i] = c]
    ELSE c

\* str::to_lowercase
to_lowercase(str) == [i \in 1..Len(str) |-> LowerChar(str[i])]

\* str::contains(pat)
contains(str, pat) ==
    \E i \in 0..(Len(str) - Len(pat)) : SubSeq(str, i + 1, i + Len(pat)) = pat

\* str::ends_with(pat)
ends_with(str, pat) ==
    /\ Len(str) >= Len(pat)
    /\ SubSeq(str, Len(str) - Len(pat) + 1, Len(str)) = pat

STR_initialize2 == <<"i", "n", "i", "t", "i", "a", "l", "i", "z", "e", "2">>
STR_swap == <<"s", "w", "a", "p">>

\* if log.to_lowercase().contains("initialize2")
IsPoolLine(log) == contains(to_lowercase(log), STR_initialize2)

\* if log.to_lowercase().ends_with("swap")
IsSwapLine(log) == ends_with(to_lowercase(log), STR_swap)

\* ---- the log lines and transactions the stream is fed with

\* "log: initialize2: {}"
LogInitialize2 == <<"l", "o", "g", ":", " ", "i", "n", "i", "t", "i", "a", "l", "i", "z", "e", "2", ":", " ", "{", "}">>

\* "log: INITIALIZE2"
LogInitialize2Upper == <<"l", "o", "g", ":", " ", "I", "N", "I", "T", "I", "A", "L", "I", "Z", "E", "2">>

\* "Instruction: Swap"
LogSwap == <<"I", "n", "s", "t", "r", "u", "c", "t", "i", "o", "n", ":", " ", "S", "w", "a", "p">>

\* "swap"
LogSwapLower == <<"s", "w", "a", "p">>

\* "Instruction: Swap2"
LogSwap2 == <<"I", "n", "s", "t", "r", "u", "c", "t", "i", "o", "n", ":", " ", "S", "w", "a", "p", "2">>

\* "Instruction: MultiSwap"
LogMultiSwap == <<"I", "n", "s", "t", "r", "u", "c", "t", "i", "o", "n", ":", " ", "M", "u", "l", "t", "i", "S", "w", "a", "p">>

\* "initialize2 Swap"
LogInitialize2ThenSwap == <<"i", "n", "i", "t", "i", "a", "l", "i", "z", "e", "2", " ", "S", "w", "a", "p">>

\* "swap ok"
LogSwapInside == <<"s", "w", "a", "p", " ", "o", "k">>

\* "log: initialize"
LogInitialize == <<"l", "o", "g", ":", " ", "i", "n", "i", "t", "i", "a", "l", "i", "z", "e">>

LogLines ==
    {LogInitialize2,
     LogInitialize2Upper,
     LogSwap,
     LogSwapLower,
     LogSwap2,
     LogMultiSwap,
     LogInitialize2ThenSwap,
     LogSwapInside,
     LogInitialize}

LogSets == SeqsUpTo(LogLines, MaxLines)

\* a pool-initialisation instruction of the AMM program (21 accounts)
PoolInitAccounts ==
    [i \in 1..21 |-> CASE i = 5 -> "P"
                       [] i = 9 -> "Ma"
                       [] i = 10 -> "Mb"
                       [] i = 11 -> "Va"
                       [] i = 12 -> "Vb"
                       [] OTHER -> "x"]

\* a confirmed pool creation
PoolCreationTx ==
    RpcOk(Some(Meta(Some(<<InnerGroup(1, <<ParsedIx("transfer",
                              [source |-> "U", destination |-> "Va", amount |-> "500"])>>)>>),
                    Some(<<[mint |-> "Ma", amount |-> "500"],
                           [mint |-> "Mb", amount |-> "500"]>>))),
          JsonParsedTx(<<PartiallyDecodedIx(OTHER_PROGRAM_ID, <<>>),
                         PartiallyDecodedIx(RAYDIUM_LIQUIDITY_POOL_V4_PROGRAM_ID,
                                            PoolInitAccounts)>>))

\* a confirmed swap (18 accounts), with its two inner transfers
SwapTx ==
    RpcOk(Some(Meta(Some(<<InnerGroup(0, <<ParsedIx("transfer",
                              [source |-> "U", destination |-> "A", amount |-> "10"]),
                                           ParsedIx("transfer",
                              [source |-> "B", destination |-> "U", amount |-> "20"])>>)>>),
                    Some(<<[mint |-> "Mx", amount |-> "7"]>>))),
          JsonParsedTx(<<PartiallyDecodedIx(RAYDIUM_LIQUIDITY_POOL_V4_PROGRAM_ID,
                                            AmmAccounts(18))>>))

\* a transaction that reaches the AMM program only through another program
RoutedTx ==
    RpcOk(Some(Meta(Some(<<>>), Some(<<>>))),
          JsonParsedTx(<<PartiallyDecodedIx(OTHER_PROGRAM_ID, <<"U">>)>>))

Signatures == {"sigPool", "sigSwap", "sigRouted", "sigNotIndexed"}

\* what get_transaction_with_config answers for a signature
Ledger(signature) ==
    CASE signature = "sigPool" -> PoolCreationTx
      [] signature = "sigSwap" -> SwapTx
      [] signature = "sigRouted" -> RoutedTx
      [] OTHER -> RpcError

\* response.value of a notification
Notification(id, signature, logs) == [id |-> id, signature |-> signature, logs |-> logs]

NoNotification == Notification(0, "", <<>>)

\* ---- the loop

DemoEnd(result) ==
    /\ d_pc' = "done"
    /\ d_result' = result

\* let ws_client = PubsubClient::new(ws_url).await?;
DemoConnect ==
    /\ d_pc = "connect"
    /\ \E ok \in BOOLEAN :
         IF ok THEN d_pc' = "subscribe" /\ d_result' = d_result
               ELSE DemoEnd("err")
    /\ UNCHANGED <<subscribed, unsubscribed, stream, stream_state, arrived, response,
                   d_line, d_step, d_started, d_finished, d_pool_calls, d_swap_calls,
                   d_failed>>

\* let (mut accounts, unsubscriber) = ws_client.logs_subscribe(..).await?;
DemoSubscribe ==
    /\ d_pc = "subscribe"
    /\ \E ok \in BOOLEAN :
         IF ok THEN d_pc' = "next" /\ d_result' = d_result /\ subscribed' = TRUE
               ELSE DemoEnd("err") /\ subscribed' = subscribed
    /\ UNCHANGED <<unsubscribed, stream, stream_state, arrived, response,
                   d_line, d_step, d_started, d_finished, d_pool_calls, d_swap_calls,
                   d_failed>>

\* the upstream service pushes a notification onto the stream
StreamArrive ==
    /\ subscribed
    /\ ~unsubscribed
    /\ stream_state = "open"
    /\ arrived < MaxNotifs
    /\ arrived' = arrived + 1
    /\ stream' = Append(stream, arrived + 1)
    /\ UNCHANGED <<d_pc, d_result, subscribed, unsubscribed, stream_state, response,
                   d_line, d_step, d_started, d_finished, d_pool_calls, d_swap_calls,
                   d_failed>>

\* the stream ends: the server closes it, or the connection drops
StreamEnd ==
    /\ subscribed
    /\ stream_state = "open"
    /\ \E how \in {"closed", "disconnected"} : stream_state' = how
    /\ UNCHANGED <<d_pc, d_result, subscribed, unsubscribed, stream, arrived, response,
                   d_line, d_step, d_started, d_finished, d_pool_calls, d_swap_calls,
                   d_failed>>

\* Mutant: the newest buffered notification is taken, not the oldest.
NextOfStream_newest == stream[Len(stream)]

\* accounts.next(): the notification the stream yields
NextOfStream == Head(stream)

\* while let Some(response) = accounts.next().await { let logs = ..; let signature = ..;
\* the notification's value is what the upstream service sent
DemoNext ==
    /\ d_pc = "next"
    /\ IF stream # <<>>
       THEN /\ \E signature \in Signatures, logs \in LogSets :
                 response' = Notification(NextOfStream, signature, logs)
            /\ stream' = SelectSeq(stream, LAMBDA id : id # NextOfStream)
            /\ d_started' = Append(d_started, NextOfStream)
            /\ d_pc' = "lines"
            /\ d_line' = 1
            /\ d_step' = "pool"
            /\ d_pool_calls' = 0
            /\ d_swap_calls' = 0
       ELSE /\ stream_state # "open"
            /\ d_pc' = "unsubscribe"
            /\ UNCHANGED <<response, stream, d_started, d_line, d_step,
                           d_pool_calls, d_swap_calls>>
    /\ UNCHANGED <<d_result, subscribed, unsubscribed, stream_state, arrived,
                   d_finished, d_failed>>

\* Mutant: a pool line that was processed ends the line loop (break).
DemoLinePool_breaks ==
    /\ d_pc = "lines"
    /\ d_step = "pool"
    /\ d_line <= Len(response.logs)
    /\ IF IsPoolLine(response.logs[d_line])
       THEN /\ d_pool_calls' = d_pool_calls + 1
            /\ \E fail_at \in 0..1 :
                 LET r == process_new_pool_detected(Ledger(response.signature), fail_at) IN
                   IF r.status = "ok"
                   THEN /\ d_line' = Len(response.logs) + 1
                        /\ UNCHANGED <<d_pc, d_result, d_failed, d_step>>
                   ELSE /\ DemoEnd(r.status)
                        /\ d_failed' = d_failed + 1
                        /\ UNCHANGED <<d_step, d_line>>
       ELSE /\ d_step' = "swap"
            /\ UNCHANGED <<d_pc, d_result, d_failed, d_pool_calls, d_line>>
    /\ UNCHANGED <<subscribed, unsubscribed, stream, stream_state, arrived, response,
                   d_started, d_finished, d_swap_calls>>

\* for log in &logs { if log.to_lowercase().contains("initialize2") {
\*     process_new_pool_detected(signature.to_string(), &rpc_client).await?; }
DemoLinePool ==
    /\ d_pc = "lines"
    /\ d_step = "pool"
    /\ d_line <= Len(response.logs)
    /\ IF IsPoolLine(response.logs[d_line])
       THEN /\ d_pool_calls' = d_pool_calls + 1
            /\ \E fail_at \in 0..1 :
                 LET r == process_new_pool_detected(Ledger(response.signature), fail_at) IN
                   IF r.status = "ok"
                   THEN /\ d_step' = "swap"
                        /\ UNCHANGED <<d_pc, d_result, d_failed>>
                   ELSE /\ DemoEnd(r.status)
                        /\ d_failed' = d_failed + 1
                        /\ UNCHANGED d_step
       ELSE /\ d_step' = "swap"
            /\ UNCHANGED <<d_pc, d_result, d_failed, d_pool_calls>>
    /\ UNCHANGED <<subscribed, unsubscribed, stream, stream_state, arrived, response,
                   d_line, d_started, d_finished, d_swap_calls>>

\* if log.to_lowercase().ends_with("swap") {
\*     process_new_swap_detected(signature.to_string(), &rpc_client).await?; }
\* then the third test, which only prints the line
DemoLineSwap ==
    /\ d_pc = "lines"
    /\ d_step = "swap"
    /\ IF IsSwapLine(response.logs[d_line])
       THEN /\ d_swap_calls' = d_swap_calls + 1
            /\ LET r == SwapExtract(Ledger(response.signature)) IN
                 IF r.status = "ok"
                 THEN /\ d_step' = "pool"
                      /\ d_line' = d_line + 1
                      /\ UNCHANGED <<d_pc, d_result, d_failed>>
                 ELSE /\ DemoEnd(r.status)
                      /\ d_failed' = d_failed + 1
                      /\ UNCHANGED <<d_step, d_line>>
       ELSE /\ d_step' = "pool"
            /\ d_line' = d_line + 1
            /\ UNCHANGED <<d_pc, d_result, d_failed, d_swap_calls>>
    /\ UNCHANGED <<subscribed, unsubscribed, stream, stream_state, arrived, response,
                   d_started, d_finished, d_pool_calls>>

\* the end of `for log in &logs`, and of the loop body: `response` goes out
\* of scope, back to accounts.next()
DemoLinesDone ==
    /\ d_pc = "lines"
    /\ d_step = "pool"
    /\ d_line > Len(response.logs)
    /\ d_finished' = Append(d_finished, response.id)
    /\ response' = NoNotification
    /\ d_pc' = "next"
    /\ UNCHANGED <<d_result, subscribed, unsubscribed, stream, stream_state, arrived,
                   d_line, d_step, d_started, d_pool_calls, d_swap_calls, d_failed>>

\* unsubscriber().await; Ok(())
DemoUnsubscribe ==
    /\ d_pc = "unsubscribe"
    /\ unsubscribed' = TRUE
    /\ DemoEnd("ok")
    /\ UNCHANGED <<subscribed, stream, stream_state, arrived, response, d_line, d_step,
                   d_started, d_finished, d_pool_calls, d_swap_calls, d_failed>>

DemoFrame == UNCHANGED <<ledgerVars, tradeVars, swapVars, poolVars, buildVars, commandVars>>

execute_demo ==
    \/ (DemoConnect /\ DemoFrame)
    \/ (DemoSubscribe /\ DemoFrame)
    \/ (DemoNext /\ DemoFrame)
    \/ (DemoLinePool /\ DemoFrame)
    \/ (DemoLineSwap /\ DemoFrame)
    \/ (DemoLinesDone /\ DemoFrame)
    \/ (DemoUnsubscribe /\ DemoFrame)

DemoIdle ==
    /\ d_pc = "connect"
    /\ d_result = "running"
    /\ subscribed = FALSE
    /\ unsubscribed = FALSE
    /\ stream = <<>>
    /\ stream_state = "open"
    /\ arrived = 0
    /\ response = NoNotification
    /\ d_line = 0
    /\ d_step = "pool"
    /\ d_started = <<>>
    /\ d_finished = <<>>
    /\ d_pool_calls = 0
    /\ d_swap_calls = 0
    /\ d_failed = 0

\* ------------------------------ process_new_pool_detected, step by step

\* UiPartiallyDecodedInstruction with its data field, which names the
\* operation ("initialize2", "swap"); neither extractor reads it
PartiallyDecodedIxWithData(program_id, accounts, data) ==
    [kind |-> "partially_decoded", program_id |-> program_id, accounts |-> accounts,
     data |-> data]

\* the pool-initialisation instruction of the AMM program
InitializeIx ==
    PartiallyDecodedIxWithData(RAYDIUM_LIQUIDITY_POOL_V4_PROGRAM_ID, PoolInitAccounts,
                               "initialize2")

\* a swap instruction of the AMM program (18 accounts)
SwapIx ==
    PartiallyDecodedIxWithData(RAYDIUM_LIQUIDITY_POOL_V4_PROGRAM_ID, AmmAccounts(18), "swap")

\* an AMM instruction that carries only the first n accounts
ShortIx(n) ==
    PartiallyDecodedIxWithData(RAYDIUM_LIQUIDITY_POOL_V4_PROGRAM_ID,
                               SubSeq(PoolInitAccounts, 1, n), "initialize2")

ComputeBudgetIx == PartiallyDecodedIx(OTHER_PROGRAM_ID, <<>>)

\* an entry of post_token_balances: mint and ui_token_amount.amount
Balance(mint, amount) == [mint |-> mint, amount |-> amount]

\* post_token_balances of a pool creation
PoolBalances == <<Balance("Ma", "500"), Balance("Mb", "900")>>

\* what post_token_balances can be: absent, empty, one entry per mint in
\* either order, an entry missing, several entries of one mint, entries of
\* the mint a swap instruction has at index 8 and 9
BalanceVariants ==
    {None,
     Some(<<>>),
     Some(PoolBalances),
     Some(<<Balance("Mb", "900"), Balance("Ma", "500")>>),
     Some(<<Balance("Ma", "500")>>),
     Some(<<Balance("Mb", "900")>>),
     Some(<<Balance("Ma", "1"), Balance("Ma", "500"), Balance("Mb", "900")>>),
     Some(<<Balance("x", "7"), Balance("Ma", "500"), Balance("Mb", "900")>>)}

PoolMeta(post_token_balances) == Meta(Some(<<>>), post_token_balances)

\* the top-level instruction lists of the transactions
PoolInstructionLists ==
    SeqsUpTo({InitializeIx, SwapIx, ComputeBudgetIx}, MaxInstructions)
    \cup {<<ShortIx(4)>>, <<ShortIx(11)>>, <<ShortIx(12)>>, <<InitializeIx, ShortIx(11)>>,
          <<ParsedIx("transfer", [source |-> "U", destination |-> "Va", lamports |-> "1"])>>}

\* the ledger's answers process_new_pool_detected is run on
PoolResponses ==
    {RpcError, RpcOk(None, JsonParsedTx(<<InitializeIx>>)),
     RpcOk(Some(PoolMeta(Some(PoolBalances))), JsonRawTx),
     RpcOk(Some(PoolMeta(Some(PoolBalances))), BinaryTx)}
    \cup {RpcOk(Some(PoolMeta(Some(PoolBalances))), JsonParsedTx(ixs)) :
            ixs \in PoolInstructionLists}
    \cup {RpcOk(Some(PoolMeta(b)), JsonParsedTx(<<InitializeIx>>)) : b \in BalanceVariants}
    \cup {RpcOk(Some(PoolMeta(Some(<<Balance("x", "7")>> \o PoolBalances))),
                JsonParsedTx(<<InitializeIx, SwapIx>>))}

PoolInstructions == ParsedInstructions(px_resp.transaction)

\* the call as it ended, for the history
PoolCallRecord ==
    [call |-> px_calls, resp |-> px_resp, result |-> px_result, events |-> px_events]

\* Mutant: what a call printed is kept into the next call.
PoolCall_keepsEvents ==
    /\ px_pc \in {"idle", "done"}
    /\ px_calls < MaxCalls
    /\ px_calls' = px_calls + 1
    /\ \E resp \in PoolResponses : px_resp' = resp
    /\ px_pc' = "fetch"
    /\ px_result' = "running"
    /\ px_i' = 0
    /\ px_events' = px_events
    /\ \/ px_kept' = px_kept
       \/ /\ px_pc = "done"
          /\ ~px_kept.some
          /\ px_kept' = Some(PoolCallRecord)

\* a caller invokes process_new_pool_detected(signature, rpc_client); the
\* call that ended before may be the one the history keeps
PoolCall ==
    /\ px_pc \in {"idle", "done"}
    /\ px_calls < MaxCalls
    /\ px_calls' = px_calls + 1
    /\ \E resp \in PoolResponses : px_resp' = resp
    /\ px_pc' = "fetch"
    /\ px_result' = "running"
    /\ px_i' = 0
    /\ px_events' = <<>>
    /\ \/ px_kept' = px_kept
       \/ /\ px_pc = "done"
          /\ ~px_kept.some
          /\ px_kept' = Some(PoolCallRecord)

\* let (metadata, transaction) = get_transaction_data(&signature, rpc_client).await?;
PoolFetch ==
    /\ px_pc = "fetch"
    /\ IF get_transaction_data(px_resp).status = "panic"
       THEN px_pc' = "done" /\ px_result' = "panic" /\ px_i' = px_i
       ELSE px_pc' = "scan" /\ px_result' = px_result /\ px_i' = 1
    /\ UNCHANGED <<px_resp, px_events, px_calls, px_kept>>

\* one turn of `for instruction in ui_parsed_message.instructions`
PoolTopInstruction ==
    /\ px_pc = "scan"
    /\ px_i <= Len(PoolInstructions)
    /\ LET ix == PoolInstructions[px_i] IN
         IF ~IsAmmInstruction(ix)
         THEN /\ px_i' = px_i + 1
              /\ UNCHANGED <<px_pc, px_result, px_events>>
         ELSE \E balance_ok \in BOOLEAN :
                LET r == PoolVisit(ix, px_resp.meta.value, balance_ok) IN
                  IF r.status = "ok"
                  THEN /\ px_events' = Append(px_events, r.event)
                       /\ px_i' = px_i + 1
                       /\ UNCHANGED <<px_pc, px_result>>
                  ELSE /\ px_pc' = "done"
                       /\ px_result' = r.status
                       /\ UNCHANGED <<px_i, px_events>>
    /\ UNCHANGED <<px_resp, px_calls, px_kept>>

\* Ok(())
PoolReturn ==
    /\ px_pc = "scan"
    /\ px_i > Len(PoolInstructions)
    /\ px_pc' = "done"
    /\ px_result' = "ok"
    /\ UNCHANGED <<px_resp, px_i, px_events, px_calls, px_kept>>

PoolFrame == UNCHANGED <<ledgerVars, tradeVars, swapVars, demoVars, buildVars, commandVars>>

PoolIdle ==
    /\ px_pc = "idle"
    /\ px_result = "running"
    /\ px_resp = RpcError
    /\ px_i = 0
    /\ px_events = <<>>
    /\ px_calls = 0
    /\ px_kept = None

\* ------------------------------ swap_exact_input: the swap instruction

TOKEN_PROGRAM == "TokenkegQfeZyiNwAJbNbGKPFXCWuBvf9Ss623VQ5DA"
token_account_input == "GKNaPCWkQfg8KK8gxtnCrVWsgLPUj9AhoywTQ7yX9GBE"
token_account_output == "4oSZPX4QJkpy12VaGuJjRiMaFxAMFdKZpJznSbEFm61h"

\* let amount_in: u64 = 1_000_000; let min_amount_out: u64 = 0;
\* let instruction_tag = 9u8;
trade_amount_in == 1000000
trade_min_amount_out == 0
instruction_tag == 9

\* A u64 is its four 16-bit limbs, the least significant first: TLC's
\* integers stop at 2^31 - 1.
U64FromInt(n) == <<n % 65536, (n \div 65536) % 65536, 0, 0>>

\* Mutant: the bytes the most significant first (to_be_bytes).
to_le_bytes_bigEndian(v) ==
    [i \in 1..8 |-> IF i % 2 = 1 THEN (v[4 - (i - 1) \div 2] \div 256) % 256
                                  ELSE v[4 - (i - 1) \div 2] % 256]

\* u64::to_le_bytes: the 8 bytes, the least significant first
to_le_bytes(v) ==
    [i \in 1..8 |-> IF i % 2 = 1 THEN v[(i + 1) \div 2] % 256
                                  ELSE (v[i \div 2] \div 256) % 256]

\* AccountMeta::new(pubkey, is_signer): a writable account
AccountMeta_new(pubkey, is_signer) ==
    [pubkey |-> pubkey, is_signer |-> is_signer, is_writable |-> TRUE]

\* let mut swap_data = vec![instruction_tag];
\* swap_data.extend_from_slice(&amount_in.to_le_bytes());
\* swap_data.extend_from_slice(&min_amount_out.to_le_bytes());
BuildSwapData ==
    /\ b_pc = "data"
    /\ swap_data' = <<instruction_tag>> \o to_le_bytes(b_amount_in)
                                        \o to_le_bytes(b_min_amount_out)
    /\ b_pc' = "accounts"
    /\ UNCHANGED <<owner, amm_keys, market_keys, b_amount_in, b_min_amount_out,
                   swap_accounts, swap_ix>>

\* Mutant: bids and asks change places in the list.
SwapAccountList_asksFirst ==
    <<AccountMeta_new(TOKEN_PROGRAM, FALSE),
      AccountMeta_new(amm_keys.amm_pool, FALSE),
      AccountMeta_new(amm_keys.amm_authority, FALSE),
      AccountMeta_new(amm_keys.amm_open_order, FALSE),
      AccountMeta_new(amm_keys.amm_coin_vault, FALSE),
      AccountMeta_new(amm_keys.amm_pc_vault, FALSE),
      AccountMeta_new(amm_keys.market_program, FALSE),
      AccountMeta_new(amm_keys.market, FALSE),
      AccountMeta_new(market_keys.asks, FALSE),
      AccountMeta_new(market_keys.bids, FALSE),
      AccountMeta_new(market_keys.event_queue, FALSE),
      AccountMeta_new(market_keys.coin_vault, FALSE),
      AccountMeta_new(market_keys.pc_vault, FALSE),
      AccountMeta_new(market_keys.vault_signer_key, FALSE),
      AccountMeta_new(token_account_input, FALSE),
      AccountMeta_new(token_account_output, FALSE),
      AccountMeta_new(owner, TRUE)>>

\* vec![AccountMeta::new(TOKEN_PROGRAM, false), .., AccountMeta::new(owner.pubkey(), true)]
SwapAccountList ==
    <<AccountMeta_new(TOKEN_PROGRAM, FALSE),
      AccountMeta_new(amm_keys.amm_pool, FALSE),
      AccountMeta_new(amm_keys.amm_authority, FALSE),
      AccountMeta_new(amm_keys.amm_open_order, FALSE),
      AccountMeta_new(amm_keys.amm_coin_vault, FALSE),
      AccountMeta_new(amm_keys.amm_pc_vault, FALSE),
      AccountMeta_new(amm_keys.market_program, FALSE),
      AccountMeta_new(amm_keys.market, FALSE),
      AccountMeta_new(market_keys.bids, FALSE),
      AccountMeta_new(market_keys.asks, FALSE),
      AccountMeta_new(market_keys.event_queue, FALSE),
      AccountMeta_new(market_keys.coin_vault, FALSE),
      AccountMeta_new(market_keys.pc_vault, FALSE),
      AccountMeta_new(market_keys.vault_signer_key, FALSE),
      AccountMeta_new(token_account_input, FALSE),
      AccountMeta_new(token_account_output, FALSE),
      AccountMeta_new(owner, TRUE)>>

\* let swap_accounts = vec![..];
BuildSwapAccounts ==
    /\ b_pc = "accounts"
    /\ swap_accounts' = SwapAccountList
    /\ b_pc' = "instruction"
    /\ UNCHANGED <<owner, amm_keys, market_keys, b_amount_in, b_min_amount_out,
                   swap_data, swap_ix>>

\* let swap_ix = Instruction { program_id, accounts: swap_accounts, data: swap_data };
BuildSwapIx ==
    /\ b_pc = "instruction"
    /\ swap_ix' = Some([program_id |-> RAYDIUM_LIQUIDITY_POOL_V4_PROGRAM_ID,
                        accounts |-> swap_accounts,
                        data |-> swap_data])
    /\ b_pc' = "built"
    /\ UNCHANGED <<owner, amm_keys, market_keys, b_amount_in, b_min_amount_out,
                   swap_data, swap_accounts>>

BuildFrame == UNCHANGED <<ledgerVars, tradeVars, swapVars, demoVars, poolVars, commandVars>>

\* ---- the quotes and amounts the instruction is built from

\* a quote whose keys are all different
QuoteDistinct ==
    [amm_keys |-> [amm_pool |-> "pool", amm_coin_mint |-> "coinMint",
                   amm_pc_mint |-> "pcMint", amm_authority |-> "authority",
                   amm_target |-> "target", amm_coin_vault |-> "coinVault",
                   amm_pc_vault |-> "pcVault", amm_lp_mint |-> "lpMint",
                   amm_open_order |-> "openOrders", market_program |-> "marketProgram",
                   market |-> "market"],
     market_keys |-> [event_queue |-> "eventQueue", bids |-> "bids", asks |-> "asks",
                      coin_vault |-> "marketCoinVault", pc_vault |-> "marketPcVault",
                      vault_signer_key |-> "vaultSigner"]]

\* the same keys, coin and pc sides exchanged, bids and asks exchanged
QuoteExchanged ==
    [amm_keys |-> [QuoteDistinct.amm_keys EXCEPT !.amm_coin_vault = "pcVault",
                                                 !.amm_pc_vault = "coinVault",
                                                 !.amm_pool = "market",
                                                 !.market = "pool"],
     market_keys |-> [QuoteDistinct.market_keys EXCEPT !.bids = "asks", !.asks = "bids",
                                                       !.coin_vault = "marketPcVault",
                                                       !.pc_vault = "marketCoinVault"]]

\* a quote whose keys are all the same key
QuoteSame ==
    [amm_keys |-> [f \in DOMAIN QuoteDistinct.amm_keys |-> "k"],
     market_keys |-> [f \in DOMAIN QuoteDistinct.market_keys |-> "k"]]

Quotes == {QuoteDistinct, QuoteExchanged, QuoteSame}

Owners == {"owner", "k"}

\* u64 values: 0, 1, 0xFF, 0x100, 0xFFFF, 0x1_0000, 1_000_000, 2^32 - 1, 2^32,
\* 0x0807_0605_0403_0201, 2^63, 2^64 - 1
U64Samples ==
    {<<0, 0, 0, 0>>, <<1, 0, 0, 0>>, <<255, 0, 0, 0>>, <<256, 0, 0, 0>>,
     <<65535, 0, 0, 0>>, <<0, 1, 0, 0>>, U64FromInt(trade_amount_in),
     <<65535, 65535, 0, 0>>, <<0, 0, 1, 0>>, <<513, 1027, 1541, 2055>>,
     <<0, 0, 0, 32768>>, <<65535, 65535, 65535, 65535>>}

BuildIdle ==
    /\ b_pc = "idle"
    /\ owner = "owner"
    /\ amm_keys = QuoteDistinct.amm_keys
    /\ market_keys = QuoteDistinct.market_keys
    /\ b_amount_in = U64FromInt(trade_amount_in)
    /\ b_min_amount_out = U64FromInt(trade_min_amount_out)
    /\ swap_data = <<>>
    /\ swap_accounts = <<>>
    /\ swap_ix = None

\* ------------------------- commands/buy_targetted_pubkey.rs: the command

\* the strings that parse::<Pubkey>() and parse::<u64>() accept
ParsesAsPubkey(str) == str = "7uJrMsDN2Wxdc3VAq1iK9N5AHaTA7wUpbm1wqRonpump"
ParsesAsU64(str) == str \in {"0", "1000000"}

\* the files Keypair::read_from_file can read a keypair from
KeypairFiles == {"id.json"}

\* A command line clap accepts: target-pubkey, ws-url, rpc-url and amount are
\* required(true); owner-file-path may be absent; simulate_only is whether
\* the flag --simulate-only was given.
CommandLines ==
    [target_pubkey : {"7uJrMsDN2Wxdc3VAq1iK9N5AHaTA7wUpbm1wqRonpump", "not-a-pubkey"},
     amount : {"1000000", "-1"},
     owner_file_path : {None, Some("id.json"), Some("missing.json")},
     simulate_only : BOOLEAN]

NoCommandLine ==
    [target_pubkey |-> "", amount |-> "", owner_file_path |-> None, simulate_only |-> FALSE]

CommandEnd(result) ==
    /\ c_pc' = "done"
    /\ c_result' = result

\* the program is started with a command line
CommandInvoke ==
    /\ c_pc \in {"idle", "done"}
    /\ c_runs < MaxRuns
    /\ c_runs' = c_runs + 1
    /\ \E args \in CommandLines : c_args' = args
    /\ c_pc' = "args"
    /\ c_result' = "running"
    /\ UNCHANGED c_calls

\* args.get_one::<String>(..).with_context(..)? for rpc-url, ws-url,
\* target-pubkey (.parse::<Pubkey>()?), amount (.parse::<u64>()?) and
\* owner-file-path
CommandArgs ==
    /\ c_pc = "args"
    /\ IF /\ ParsesAsPubkey(c_args.target_pubkey)
          /\ ParsesAsU64(c_args.amount)
          /\ c_args.owner_file_path.some
       THEN c_pc' = "key" /\ c_result' = c_result
       ELSE CommandEnd("err")
    /\ UNCHANGED <<c_args, c_runs, c_calls>>

\* let owner = Keypair::read_from_file(owner_file_path).map_err(..).with_context(..)?;
CommandReadKey ==
    /\ c_pc = "key"
    /\ IF c_args.owner_file_path.value \in KeypairFiles
       THEN c_pc' = "processor" /\ c_result' = c_result
       ELSE CommandEnd("err")
    /\ UNCHANGED <<c_args, c_runs, c_calls>>

\* let raydium_processor = EventProcessor::new(rpc_url, ws_url).await?;
CommandNewProcessor ==
    /\ c_pc = "processor"
    /\ \E ok \in BOOLEAN :
         IF ok THEN c_pc' = "buy" /\ c_result' = c_result
               ELSE CommandEnd("err")
    /\ UNCHANGED <<c_args, c_runs, c_calls>>

\* the fourth argument of execute_on_creation(owner, target_pubkey, amount, true)
ExecuteOnCreationMode == TRUE

\* raydium_processor.execute_on_creation(owner, target_pubkey, amount, true).await?; Ok(())
CommandExecuteOnCreation ==
    /\ c_pc = "buy"
    /\ c_calls' = Append(c_calls, [args |-> c_args,
                                   owner |-> c_args.owner_file_path.value,
                                   target_pubkey |-> c_args.target_pubkey,
                                   amount |-> c_args.amount,
                                   mode |-> ExecuteOnCreationMode])
    /\ \E ok \in BOOLEAN : CommandEnd(IF ok THEN "ok" ELSE "err")
    /\ UNCHANGED <<c_args, c_runs>>

CommandFrame == UNCHANGED <<ledgerVars, tradeVars, swapVars, demoVars, poolVars, buildVars>>

CommandIdle ==
    /\ c_pc = "idle"
    /\ c_result = "running"
    /\ c_args = NoCommandLine
    /\ c_runs = 0
    /\ c_calls = <<>>

\* ------------------------------------------------------- swap_exact_input

SimOutcomes == {"ok", "exec_err", "rpc_err"}
SendOutcomes == {"confirmed", "rejected", "expired", "transport_err"}
SendFailures == {"rejected", "expired", "transport_err"}

\* Message::new(&[compute_units_price, swap_ix], None): no blockhash yet.
NewMessage == [instructions |-> <<"compute_units_price", "swap_ix">>,
               payer |-> "owner",
               recent_blockhash |-> NoBlockhash]

NoTransaction == [message |-> NewMessage, signer |-> "none"]

\* VersionedTransaction::try_new(message.clone(), &signers)
try_new(msg) == [message |-> msg, signer |-> "owner"]

TradePanic ==
    /\ t_pc' = "done"
    /\ t_result' = "panic"

\* Keypair::read_from_file(keypair_file_path).expect("Error parsing private key")
TradeLoadKey ==
    /\ t_pc = "load_key"
    /\ \E ok \in BOOLEAN :
         IF ok THEN t_pc' = "quote" /\ t_result' = t_result
               ELSE TradePanic
    /\ UNCHANGED <<message, transaction, t_fetches, t_sim, t_simulated,
                   t_submitted, t_send, t_steps, chain_tip>>

\* get_serum_quote_via_raydium_api(..).await.unwrap(), then the instruction
\* and message are built (no blockhash attached).
TradeQuote ==
    /\ t_pc = "quote"
    /\ \E ok \in BOOLEAN :
         IF ok THEN t_pc' = "fetch1" /\ t_result' = t_result
               ELSE TradePanic
    /\ message' = NewMessage
    /\ UNCHANGED <<transaction, t_fetches, t_sim, t_simulated,
                   t_submitted, t_send, t_steps, chain_tip>>

\* rpc_client.get_latest_blockhash().await.unwrap();
\* message.set_recent_blockhash(recent_blockhash)
FetchBlockhash(from, to) ==
    /\ t_pc = from
    /\ \E ok \in BOOLEAN :
         IF ok
         THEN /\ t_pc' = to
              /\ t_result' = t_result
              /\ t_fetches' = t_fetches + 1
              /\ message' = [message EXCEPT !.recent_blockhash =
                                [hash |-> chain_tip, fetch |-> t_fetches + 1]]
              /\ t_steps' = Append(t_steps, "get_latest_blockhash")
         ELSE /\ TradePanic
              /\ UNCHANGED <<t_fetches, message, t_steps>>
    /\ UNCHANGED <<transaction, t_sim, t_simulated, t_submitted, t_send, chain_tip>>

TradeFetch1 == FetchBlockhash("fetch1", "sign1")

\* let transaction = VersionedTransaction::try_new(message.clone(), &signers).unwrap()
SignMessage(from, to) ==
    /\ t_pc = from
    /\ t_pc' = to
    /\ transaction' = try_new(message)
    /\ t_steps' = Append(t_steps, "sign")
    /\ UNCHANGED <<t_result, message, t_fetches, t_sim, t_simulated,
                   t_submitted, t_send, chain_tip>>

TradeSign1 == SignMessage("sign1", "simulate")

\* rpc_client.simulate_transaction(&transaction).await.expect("Simulation failed"):
\* a failed call panics; the returned simulation outcome is dropped (let _ =),
\* whether or not it carries an execution error.
TradeSimulate ==
    /\ t_pc = "simulate"
    /\ \E out \in SimOutcomes :
         /\ t_sim' = out
         /\ IF out = "rpc_err"
            THEN TradePanic
            ELSE t_pc' = "fetch2" /\ t_result' = t_result
    /\ t_simulated' = Append(t_simulated, transaction)
    /\ t_steps' = Append(t_steps, "simulate_transaction")
    /\ UNCHANGED <<message, transaction, t_fetches, t_submitted, t_send, chain_tip>>

\* Mutant: the second fetch is left out, so the re-signed transaction carries
\* the block reference used for the simulation.
TradeFetch2_reusesReference ==
    /\ t_pc = "fetch2"
    /\ t_pc' = "sign2"
    /\ UNCHANGED <<t_result, message, transaction, t_fetches, t_sim,
                   t_simulated, t_submitted, t_send, t_steps, chain_tip>>

TradeFetch2 == FetchBlockhash("fetch2", "sign2")

\* Mutant: the transaction to submit is signed over a message rebuilt from
\* the swap instruction alone.
TradeSign2_rebuildsMessage ==
    /\ t_pc = "sign2"
    /\ t_pc' = "send"
    /\ transaction' = try_new([message EXCEPT !.instructions = <<"swap_ix">>])
    /\ t_steps' = Append(t_steps, "sign")
    /\ UNCHANGED <<t_result, message, t_fetches, t_sim, t_simulated,
                   t_submitted, t_send, chain_tip>>

TradeSign2 == SignMessage("sign2", "send")

\* let result = rpc_client.send_and_confirm_transaction(&transaction).await;
\* println!(..result); Ok(())
TradeSend ==
    /\ t_pc = "send"
    /\ \E out \in SendOutcomes : t_send' = out
    /\ t_submitted' = Append(t_submitted, transaction)
    /\ t_steps' = Append(t_steps, "send_and_confirm_transaction")
    /\ t_pc' = "return"
    /\ UNCHANGED <<t_result, message, transaction, t_fetches, t_sim,
                   t_simulated, chain_tip>>

\* Mutant: a failed submission is retried with a new block reference.
TradeReturn_retries ==
    /\ t_pc = "return"
    /\ IF t_send \in SendFailures
       THEN t_pc' = "fetch2" /\ t_result' = t_result
       ELSE t_pc' = "done" /\ t_result' = "ok"
    /\ UNCHANGED <<message, transaction, t_fetches, t_sim, t_simulated,
                   t_submitted, t_send, t_steps, chain_tip>>

TradeReturn ==
    /\ t_pc = "return"
    /\ t_pc' = "done"
    /\ t_result' = "ok"
    /\ UNCHANGED <<message, transaction, t_fetches, t_sim, t_simulated,
                   t_submitted, t_send, t_steps, chain_tip>>

\* swap_exact_input touches nothing but its own locals
TradeFrame == UNCHANGED <<swapVars, demoVars, poolVars, buildVars, commandVars>>

swap_exact_input ==
    \/ (TradeLoadKey /\ TradeFrame)
    \/ (TradeQuote /\ TradeFrame)
    \/ (TradeFetch1 /\ TradeFrame)
    \/ (TradeSign1 /\ TradeFrame)
    \/ (TradeSimulate /\ TradeFrame)
    \/ (TradeFetch2 /\ TradeFrame)
    \/ (TradeSign2 /\ TradeFrame)
    \/ (TradeSend /\ TradeFrame)
    \/ (TradeReturn /\ TradeFrame)

TradeIdle ==
    /\ t_pc = "load_key"
    /\ t_result = "running"
    /\ message = NewMessage
    /\ transaction = NoTransaction
    /\ t_fetches = 0
    /\ t_sim = "none"
    /\ t_simulated = <<>>
    /\ t_submitted = <<>>
    /\ t_send = "none"
    /\ t_steps = <<>>

InitTrade ==
    /\ chain_tip = 0
    /\ TradeIdle
    /\ SwapIdle
    /\ DemoIdle
    /\ PoolIdle
    /\ BuildIdle
    /\ CommandIdle

NextTrade ==
    \/ swap_exact_input
    \/ (LedgerAdvance /\ UNCHANGED <<tradeVars, swapVars, demoVars, poolVars, buildVars, commandVars>>)

SpecTrade == InitTrade /\ [][NextTrade]_vars

\* ------------------------------------ process_new_swap_detected, one call

InitSwap ==
    /\ chain_tip = 0
    /\ TradeIdle
    /\ sx_pc = "fetch"
    /\ sx_result = "running"
    /\ sx_resp \in SwapResponses
    /\ sx_i = 0
    /\ sx_g = 0
    /\ sx_k = 0
    /\ token_in = ""
    /\ token_out = ""
    /\ amount_in = "0"
    /\ amount_out = "0"
    /\ sx_scanned = <<>>
    /\ sx_report = None
    /\ DemoIdle
    /\ PoolIdle
    /\ BuildIdle
    /\ CommandIdle

NextSwap == process_new_swap_detected

SpecSwap == InitSwap /\ [][NextSwap]_vars

\* ------------------------------------------------- execute_demo, one run

InitDemo ==
    /\ chain_tip = 0
    /\ TradeIdle
    /\ SwapIdle
    /\ DemoIdle
    /\ PoolIdle
    /\ BuildIdle
    /\ CommandIdle

NextDemo ==
    \/ execute_demo
    \/ (StreamArrive /\ DemoFrame)
    \/ (StreamEnd /\ DemoFrame)

SpecDemo == InitDemo /\ [][NextDemo]_vars

\* ------------------------- process_new_pool_detected, a series of calls

InitPool ==
    /\ chain_tip = 0
    /\ TradeIdle
    /\ SwapIdle
    /\ DemoIdle
    /\ PoolIdle
    /\ BuildIdle
    /\ CommandIdle

NextPool ==
    \/ (PoolCall /\ PoolFrame)
    \/ (PoolFetch /\ PoolFrame)
    \/ (PoolTopInstruction /\ PoolFrame)
    \/ (PoolReturn /\ PoolFrame)

SpecPool == InitPool /\ [][NextPool]_vars

\* --------------------- swap_exact_input: the swap instruction, built once

InitBuild ==
    /\ chain_tip = 0
    /\ TradeIdle
    /\ SwapIdle
    /\ DemoIdle
    /\ PoolIdle
    /\ b_pc = "data"
    /\ owner \in Owners
    /\ \E q \in Quotes : amm_keys = q.amm_keys /\ market_keys = q.market_keys
    /\ b_amount_in \in U64Samples
    /\ b_min_amount_out \in U64Samples
    /\ swap_data = <<>>
    /\ swap_accounts = <<>>
    /\ swap_ix = None
    /\ CommandIdle

NextBuild ==
    \/ (BuildSwapData /\ BuildFrame)
    \/ (BuildSwapAccounts /\ BuildFrame)
    \/ (BuildSwapIx /\ BuildFrame)

SpecBuild == InitBuild /\ [][NextBuild]_vars

\* ------------------- buy-on-creation-targetted-pubkey, a series of runs

InitCommand ==
    /\ chain_tip = 0
    /\ TradeIdle
    /\ SwapIdle
    /\ DemoIdle
    /\ PoolIdle
    /\ BuildIdle
    /\ CommandIdle

NextCommand ==
    \/ (CommandInvoke /\ CommandFrame)
    \/ (CommandArgs /\ CommandFrame)
    \/ (CommandReadKey /\ CommandFrame)
    \/ (CommandNewProcessor /\ CommandFrame)
    \/ (CommandExecuteOnCreation /\ CommandFrame)

SpecCommand == InitCommand /\ [][NextCommand]_vars

\* ------------------------------------------------- claims: swap_exact_input

\* C1 (as claimed): once the simulation step has failed -- the call returned an
\* error, or it returned an outcome carrying an execution error -- no
\* transaction has been handed to send_and_confirm_transaction.
C1_NoSubmissionAfterFailedSimulation ==
    t_sim \in {"rpc_err", "exec_err"} => Len(t_submitted) = 0

\* C4 (as claimed): an invocation whose submission ended in rejection, expiry
\* or a transport error returns an error to its caller, never success.
C4_FailedSubmissionReturnsError ==
    (t_pc = "done" /\ t_send \in SendFailures) => t_result = "err"

IsPrefix(s, t) == Len(s) <= Len(t) /\ \A i \in 1..Len(s) : s[i] = t[i]

TradeStepOrder == <<"get_latest_blockhash", "sign", "simulate_transaction",
                    "get_latest_blockhash", "sign", "send_and_confirm_transaction">>

\* C5: the steps of an invocation occur in the order fetch block reference,
\* sign, simulate, fetch a new block reference, re-sign, submit; the submitted
\* transaction is signed over the reference of the second fetch, made after the
\* simulation, and the simulated one over the reference of the first fetch.
C5_FreshBlockReferenceForSubmission ==
    /\ IsPrefix(t_steps, TradeStepOrder)
    /\ \A i \in 1..Len(t_simulated) :
         t_simulated[i].message.recent_blockhash.fetch = 1
    /\ \A i \in 1..Len(t_submitted) :
         /\ t_submitted[i].signer = "owner"
         /\ t_submitted[i].message.recent_blockhash.fetch = 2
         /\ Len(t_simulated) = 1
         /\ t_submitted[i].message.recent_blockhash.hash
              >= t_simulated[1].message.recent_blockhash.hash

\* C5 witness: a transaction was submitted over a block reference newer than
\* the one the simulation used.
C5_Witness ==
    /\ Len(t_submitted) = 1
    /\ t_submitted[1].message.recent_blockhash.hash
         > t_simulated[1].message.recent_blockhash.hash

\* C6: an invocation submits at most once, and once the submission has an
\* outcome (confirmed or failed) no further simulate or submit call is made.
C6_NoRetryAfterSubmission ==
    /\ [](Len(t_submitted) <= 1)
    /\ [][t_send # "none" =>
            /\ t_submitted' = t_submitted
            /\ t_simulated' = t_simulated
            /\ t_send' = t_send]_vars

\* C6 witness: the invocation has ended after a rejected submission, with one
\* submission made.
C6_Witness ==
    /\ t_pc = "done"
    /\ t_send = "rejected"
    /\ Len(t_submitted) = 1
    /\ Len(t_simulated) = 1

\* ----------------------------------------- claims: process_new_swap_detected

\* C23: the simulated transaction and the submitted transaction carry the
\* same message except for the block reference: the same two instructions in
\* the same order (priority fee first, then the swap), the same payer and the
\* same signer; only the recent blockhash differs.
C23_SameMessageButBlockReference ==
    \A i \in 1..Len(t_simulated), j \in 1..Len(t_submitted) :
      /\ t_simulated[i].message.instructions = <<"compute_units_price", "swap_ix">>
      /\ t_submitted[j].message.instructions = t_simulated[i].message.instructions
      /\ t_submitted[j].message.payer = t_simulated[i].message.payer
      /\ t_submitted[j].signer = t_simulated[i].signer
      /\ [t_simulated[i].message EXCEPT
            !.recent_blockhash = t_submitted[j].message.recent_blockhash]
           = t_submitted[j].message

\* C23 witness: the invocation has returned after simulating one transaction
\* and submitting another, which differ.
C23_Witness ==
    /\ t_pc = "done"
    /\ Len(t_simulated) = 1
    /\ Len(t_submitted) = 1
    /\ t_simulated[1] # t_submitted[1]
    /\ t_submitted[1].message.instructions = <<"compute_units_price", "swap_ix">>

Last(s) == s[Len(s)]

\* the scan has just visited an inner instruction
SwapVisited == sx_scanned' # sx_scanned

\* a transfer whose source equals a leg sets token_in and amount_out
SourceRule ==
    SwapVisited =>
      LET v == Last(sx_scanned')
          info == v.instruction.parsed.info
      IN (IsTransferWithAmount(v.instruction)
          /\ info.source \in {v.token_account_a, v.token_account_b})
         => (token_in' = info.source /\ amount_out' = info.amount)

\* a transfer whose destination equals a leg sets token_out and amount_in
DestinationRule ==
    SwapVisited =>
      LET v == Last(sx_scanned')
          info == v.instruction.parsed.info
      IN (IsTransferWithAmount(v.instruction)
          /\ info.destination \in {v.token_account_a, v.token_account_b})
         => (token_out' = info.destination /\ amount_in' = info.amount)

\* the same, for a transfer whose source is neither leg
DestinationRuleAfterSource ==
    SwapVisited =>
      LET v == Last(sx_scanned')
          info == v.instruction.parsed.info
      IN (IsTransferWithAmount(v.instruction)
          /\ info.destination \in {v.token_account_a, v.token_account_b}
          /\ info.source \notin {v.token_account_a, v.token_account_b})
         => (token_out' = info.destination /\ amount_in' = info.amount)

\* the transaction is one the extraction runs through: fetched with metadata,
\* parsed, with at least one AMM instruction, each with its accounts 5 and 6
SwapWellFormed ==
    /\ sx_resp.rpc = "ok"
    /\ sx_resp.meta.some
    /\ sx_resp.meta.value.inner_instructions.some
    /\ \E i \in 1..Len(SwapInstructions) : IsAmmInstruction(SwapInstructions[i])
    /\ \A i \in 1..Len(SwapInstructions) :
         IsAmmInstruction(SwapInstructions[i]) => Len(SwapInstructions[i].accounts) >= 7

\* exactly two inner instructions, both transfers with an amount: p with
\* source = A, q with destination = B (A, B: accounts 5 and 6)
TwoTransfers(p, q, sourceFree) ==
    /\ SwapWellFormed
    /\ LET flat == FlatInner(SwapGroups) IN
         /\ Len(flat) = 2
         /\ {p, q} = {1, 2}
         /\ IsTransferWithAmount(flat[p])
         /\ IsTransferWithAmount(flat[q])
         /\ flat[p].parsed.info.source = "A"
         /\ flat[q].parsed.info.destination = "B"
         /\ sourceFree => flat[q].parsed.info.source \notin {"A", "B"}

TwoTransfersResult(p, q) ==
    LET flat == FlatInner(SwapGroups) IN
      /\ sx_result = "ok"
      /\ sx_report = Some([token_in |-> "A", amount_out |-> flat[p].parsed.info.amount,
                           token_out |-> "B", amount_in |-> flat[q].parsed.info.amount])

\* a visited instruction that is a transfer with an amount touching a leg
Matching(v) ==
    /\ IsTransferWithAmount(v.instruction)
    /\ \/ v.instruction.parsed.info.source \in {v.token_account_a, v.token_account_b}
       \/ v.instruction.parsed.info.destination \in {v.token_account_a, v.token_account_b}

\* with zero matching transfers the four fields keep the defaults
ZeroMatchingKeepsDefaults ==
    (\A j \in 1..Len(sx_scanned) : ~Matching(sx_scanned[j]))
      => /\ SwapState = SwapDefaults
         /\ sx_report \in {None, Some(SwapDefaults)}

\* C10 (as claimed): a transfer whose source equals a leg sets token_in to that
\* leg and amount_out to its amount; a transfer whose destination equals a leg
\* sets token_out to that leg and amount_in to its amount; two transfers, one
\* with source = A and one with destination = B, give token_in = A, amount_out
\* = first amount, token_out = B, amount_in = second amount; with zero matching
\* transfers the fields keep the defaults.
C10_LegAttribution_AsClaimed ==
    /\ [][SourceRule /\ DestinationRule]_vars
    /\ [](\A p, q \in 1..2 :
            (sx_pc = "done" /\ TwoTransfers(p, q, FALSE)) => TwoTransfersResult(p, q))
    /\ []ZeroMatchingKeepsDefaults

\* C10 (amended): as claimed, but the destination rule holds for a transfer
\* whose source is neither leg (the source test comes first and excludes the
\* destination test), also for the second of the two transfers.
C10_LegAttribution ==
    /\ [][SourceRule /\ DestinationRuleAfterSource]_vars
    /\ [](\A p, q \in 1..2 :
            (sx_pc = "done" /\ TwoTransfers(p, q, TRUE)) => TwoTransfersResult(p, q))
    /\ []ZeroMatchingKeepsDefaults

\* C10 witness: the extraction has reported a swap with two inner transfers,
\* A -> U of 10 then U -> B of 20.
C10_Witness ==
    /\ sx_pc = "done"
    /\ TwoTransfers(1, 2, TRUE)
    /\ Len(sx_scanned) = 2
    /\ FlatInner(SwapGroups)[2].parsed.info.source = "U"
    /\ sx_report = Some([token_in |-> "A", amount_out |-> "10",
                         token_out |-> "B", amount_in |-> "20"])

\* a visited transfer with an amount whose source is one of the two legs
SourceHit(v) ==
    /\ IsTransferWithAmount(v.instruction)
    /\ v.instruction.parsed.info.source \in {v.token_account_a, v.token_account_b}

\* a visited transfer with an amount whose source is neither leg and whose
\* destination is one of them
DestinationHit(v) ==
    /\ IsTransferWithAmount(v.instruction)
    /\ v.instruction.parsed.info.source \notin {v.token_account_a, v.token_account_b}
    /\ v.instruction.parsed.info.destination \in {v.token_account_a, v.token_account_b}

\* one visit updates at most one side: the source side on a source hit, else
\* the destination side on a destination hit, else nothing
OneSidePerTransfer ==
    SwapVisited =>
      LET v == Last(sx_scanned')
          info == v.instruction.parsed.info
      IN IF SourceHit(v)
         THEN /\ token_in' = info.source /\ amount_out' = info.amount
              /\ token_out' = token_out /\ amount_in' = amount_in
         ELSE IF DestinationHit(v)
         THEN /\ token_out' = info.destination /\ amount_in' = info.amount
              /\ token_in' = token_in /\ amount_out' = amount_out
         ELSE /\ token_in' = token_in /\ amount_out' = amount_out
              /\ token_out' = token_out /\ amount_in' = amount_in

\* a transfer from leg A to leg B sets token_in and amount_out only
LegToLegSetsSourceSideOnly ==
    SwapVisited =>
      LET v == Last(sx_scanned')
          info == v.instruction.parsed.info
      IN (/\ IsTransferWithAmount(v.instruction)
          /\ info.source = v.token_account_a
          /\ info.destination = v.token_account_b)
         => /\ token_in' = v.token_account_a /\ amount_out' = info.amount
            /\ token_out' = token_out /\ amount_in' = amount_in

\* at the report the scan has visited, for each AMM instruction in turn, the
\* inner instructions of every group of the transaction, in order
ScanCoversEveryGroup ==
    (sx_pc = "done" /\ sx_result = "ok") =>
      LET amm == {i \in 1..Len(SwapInstructions) : IsAmmInstruction(SwapInstructions[i])} IN
        IF amm = {} THEN sx_scanned = <<>>
        ELSE LET flat == FlatInner(SwapGroups) IN
               /\ Len(sx_scanned) = Cardinality(amm) * Len(flat)
               /\ \A j \in 1..Len(sx_scanned) :
                    sx_scanned[j].instruction = flat[((j - 1) % Len(flat)) + 1]

LastOf(S) == CHOOSE j \in S : \A k \in S : k <= j

\* the reported value of each side is the one the last hit of that side set
LastMatchWins ==
    (sx_pc = "done" /\ sx_result = "ok") =>
      LET src == {j \in 1..Len(sx_scanned) : SourceHit(sx_scanned[j])}
          dst == {j \in 1..Len(sx_scanned) : DestinationHit(sx_scanned[j])}
          report == sx_report.value
      IN /\ sx_report.some
         /\ IF src = {}
            THEN report.token_in = "" /\ report.amount_out = "0"
            ELSE LET info == sx_scanned[LastOf(src)].instruction.parsed.info IN
                   report.token_in = info.source /\ report.amount_out = info.amount
         /\ IF dst = {}
            THEN report.token_out = "" /\ report.amount_in = "0"
            ELSE LET info == sx_scanned[LastOf(dst)].instruction.parsed.info IN
                   report.token_out = info.destination /\ report.amount_in = info.amount

\* C25: each transfer updates at most one side, the source tests coming before
\* the destination tests; the scan covers the inner instructions of every
\* group of the transaction; the reported value of each side is the one set
\* by the last matching transfer in scan order; a transfer from leg A to leg B
\* sets only token_in and amount_out and leaves token_out and amount_in as
\* they were.
C25_ScanOrderAndPrecedence ==
    /\ [][OneSidePerTransfer /\ LegToLegSetsSourceSideOnly]_vars
    /\ [](ScanCoversEveryGroup /\ LastMatchWins)

\* C25 witness: a swap whose first group holds U -> A of 10 and whose second
\* group holds A -> B of 20 has been reported: the second transfer set the
\* source side only, the destination side is still the first transfer's.
C25_Witness ==
    /\ sx_pc = "done"
    /\ sx_result = "ok"
    /\ SwapWellFormed
    /\ Len(SwapGroups) = 2
    /\ Len(SwapGroups[1].instructions) = 1
    /\ Len(sx_scanned) = 2
    /\ \A j \in 1..2 : IsTransferWithAmount(sx_scanned[j].instruction)
    /\ sx_scanned[1].instruction.parsed.info = [source |-> "U", destination |-> "A", amount |-> "10"]
    /\ sx_scanned[2].instruction.parsed.info = [source |-> "A", destination |-> "B", amount |-> "20"]
    /\ sx_report = Some([token_in |-> "A", amount_out |-> "20",
                         token_out |-> "A", amount_in |-> "10"])

\* a parsed transfer whose info has no amount field
IsAmountlessTransfer(ix) ==
    /\ ix.kind = "parsed"
    /\ ix.parsed.type = "transfer"
    /\ "amount" \notin DOMAIN ix.parsed.info

\* C22: an inner transfer instruction whose info has no amount field is
\* skipped without error: the step that visits it changes none of token_in,
\* token_out, amount_in, amount_out, and the scan goes on with the next inner
\* instruction of the group.
C22_AmountlessTransferSkipped ==
    [][(SwapVisited /\ IsAmountlessTransfer(Last(sx_scanned').instruction))
         => /\ token_in' = token_in
            /\ token_out' = token_out
            /\ amount_in' = amount_in
            /\ amount_out' = amount_out
            /\ sx_pc' = "scan"
            /\ sx_result' = "running"
            /\ sx_g' = sx_g
            /\ sx_k' = sx_k + 1]_vars

\* C22 witness: a transfer out of leg A with an amount, then a transfer into
\* leg A without one, have been scanned; the report is that of the first.
C22_Witness ==
    /\ sx_pc = "done"
    /\ Len(sx_scanned) = 2
    /\ IsTransferWithAmount(sx_scanned[1].instruction)
    /\ IsAmountlessTransfer(sx_scanned[2].instruction)
    /\ sx_scanned[2].instruction.parsed.info.destination = "A"
    /\ sx_report = Some([token_in |-> "A", amount_out |-> "10",
                         token_out |-> "", amount_in |-> "0"])

\* ------------------------------------------------------ claims: execute_demo

\* C2 (as claimed): when a processing call (process_new_pool_detected or
\* process_new_swap_detected) fails, by an error or a panic, the loop does not
\* terminate: execute_demo is still running after the failing step.
C2_FailureDoesNotEndLoop ==
    [][d_failed' > d_failed => (d_pc' # "done" /\ d_result' = "running")]_vars

\* C3 (as claimed): whenever execute_demo has returned (Ok or Err) after a
\* successful logs_subscribe, the unsubscribe handle has been invoked.
C3_UnsubscribedOnEveryReturn ==
    (d_pc = "done" /\ subscribed /\ d_result \in {"ok", "err"}) => unsubscribed

\* the step that ends the handling of the notification in `response`: its
\* loop body ends, or execute_demo does
HandlingEnds == d_pc = "lines" /\ d_pc' # "lines"

\* the line, compared case-insensitively, contains "initialize2"
MentionsInitialize2(log) ==
    \E i \in 1..Len(log) :
      /\ i + 10 <= Len(log)
      /\ \A j \in 1..11 : LowerChar(log[i + j - 1]) = STR_initialize2[j]

\* the line, compared case-insensitively, ends with "swap"
EndsInSwap(log) ==
    /\ Len(log) >= 4
    /\ \A j \in 1..4 : LowerChar(log[Len(log) - 4 + j]) = STR_swap[j]

\* C7 (as claimed): for the log lines of a notification, pool-creation
\* processing is triggered iff some line contains "initialize2" and swap
\* processing iff some line ends with "swap", both case-insensitively; with no
\* such line neither is triggered and the notification is handled without error.
C7_ClassificationByLogLines ==
    [][HandlingEnds =>
         LET logs == response.logs
             pool == \E i \in 1..Len(logs) : MentionsInitialize2(logs[i])
             swap == \E i \in 1..Len(logs) : EndsInSwap(logs[i])
         IN /\ (d_pool_calls' > 0) <=> pool
            /\ (d_swap_calls' > 0) <=> swap
            /\ (~pool /\ ~swap) => (d_failed' = 0 /\ Last(d_finished') = response.id)]_vars

\* C8 (as claimed): every log line of a notification is evaluated, also after
\* an earlier line's processing failed; a notification with both an
\* "initialize2" line and a line ending in "swap" has both kinds processed.
C8_EveryLineEvaluated ==
    [][HandlingEnds =>
         LET logs == response.logs IN
           /\ d_line' = Len(logs) + 1
           /\ ((\E i \in 1..Len(logs) : MentionsInitialize2(logs[i]))
               /\ (\E i \in 1..Len(logs) : EndsInSwap(logs[i])))
              => (d_pool_calls' > 0 /\ d_swap_calls' > 0)]_vars

\* C9: notifications are processed one at a time and in arrival order: the
\* j-th notification whose processing starts is the j-th that arrived, and a
\* notification's processing starts only when all earlier ones have finished.
C9_OneAtATimeInArrivalOrder ==
    /\ \A j \in 1..Len(d_started) : d_started[j] = j
    /\ Len(d_started) <= arrived
    /\ IsPrefix(d_finished, d_started)
    /\ Len(d_started) <= Len(d_finished) + 1
    /\ d_pc = "lines" => (response.id = Last(d_started)
                           /\ Len(d_finished) = Len(d_started) - 1)
    /\ d_pc \in {"next", "unsubscribe"} => d_finished = d_started

\* C9 witness: the second notification is being processed, after the first
\* has finished, while a third waits on the stream.
C9_Witness ==
    /\ d_pc = "lines"
    /\ d_started = <<1, 2>>
    /\ d_finished = <<1>>
    /\ stream = <<3>>

\* the number of the first n log lines that satisfy the two tests
PoolLinesAmong(logs, n) == Cardinality({i \in 1..n : MentionsInitialize2(logs[i])})
SwapLinesAmong(logs, n) == Cardinality({i \in 1..n : EndsInSwap(logs[i])})

\* C24: while no processing call fails, the passes made for one notification
\* are one process_new_pool_detected call per log line containing
\* "initialize2" plus one process_new_swap_detected call per log line ending
\* in "swap", each of which fetches the transaction again: counted over the
\* lines evaluated so far, and so over all k matching lines at the end.
C24_OnePassPerMatchingLine ==
    d_pc = "lines" =>
      /\ d_pool_calls = PoolLinesAmong(response.logs,
                                       IF d_step = "pool" THEN d_line - 1 ELSE d_line)
      /\ d_swap_calls = SwapLinesAmong(response.logs, d_line - 1)

\* C24 witness: a notification with the one line "initialize2 Swap" has been
\* fetched and reported twice, once as a pool and once as a swap.
C24_Witness ==
    /\ d_pc = "lines"
    /\ response.logs = <<LogInitialize2ThenSwap>>
    /\ d_line = 2
    /\ d_pool_calls = 1
    /\ d_swap_calls = 1

\* ---- process_new_swap_detected: faults

\* metadata.inner_instructions holds no group: the field is absent, or it is
\* an empty list
NoInnerGroups(metadata) ==
    \/ ~metadata.inner_instructions.some
    \/ metadata.inner_instructions.value = <<>>

\* every AMM instruction of the transaction has the accounts 5 and 6
AmmInstructionsHaveLegs(resp) ==
    \A i \in 1..Len(ParsedInstructions(resp.transaction)) :
      LET ix == ParsedInstructions(resp.transaction)[i] IN
        IsAmmInstruction(ix) => Len(ix.accounts) >= 7

\* C11 (as claimed): when the metadata of the transaction has no
\* inner-instruction group at all, process_new_swap_detected completes
\* normally and reports the defaults ("", "", "0", "0").
C11_NoInnerGroupsReportsDefaults ==
    (/\ sx_pc = "done"
     /\ get_transaction_data(sx_resp).status = "ok"
     /\ NoInnerGroups(sx_resp.meta.value)
     /\ AmmInstructionsHaveLegs(sx_resp))
    => (sx_result = "ok" /\ sx_report = Some(SwapDefaults))

\* ---- process_new_pool_detected: the reported event

\* the AMM-program instructions of a list, in order
AmmOnly(ixs) == SelectSeq(ixs, IsAmmInstruction)

\* the balances are a map: no two entries have the same mint
MintsOnce(balances) ==
    \A i, j \in 1..Len(balances) : balances[i].mint = balances[j].mint => i = j

\* the amount the map has for a mint
AmountOf(balances, mint) ==
    balances[CHOOSE i \in 1..Len(balances) : balances[i].mint = mint].amount

\* C12: for an AMM instruction with account 4 = P, accounts 8/9 = Ma/Mb,
\* accounts 10/11 = Va/Vb and post-balances {Ma: x, Mb: y}, the reported event
\* is ammAddress = P, tokenA = (Ma, Va, x), tokenB = (Mb, Vb, y): the j-th
\* event printed by a call is that of the j-th AMM instruction, each side with
\* its own mint, vault and the balance looked up by its mint; a call that
\* returns Ok has printed one event per AMM instruction.
C12_PoolEventFields ==
    /\ \A j \in 1..Len(px_events) :
         LET ix == AmmOnly(PoolInstructions)[j]
             balances == px_resp.meta.value.post_token_balances.value
             e == px_events[j]
         IN MintsOnce(balances) =>
              /\ e.ammAddress = At(ix.accounts, 4)
              /\ e.tokenA = [mintAddress |-> At(ix.accounts, 8),
                             vaultAccount |-> At(ix.accounts, 10),
                             initialBalance |-> AmountOf(balances, At(ix.accounts, 8))]
              /\ e.tokenB = [mintAddress |-> At(ix.accounts, 9),
                             vaultAccount |-> At(ix.accounts, 11),
                             initialBalance |-> AmountOf(balances, At(ix.accounts, 9))]
    /\ (px_pc = "done" /\ px_result = "ok")
         => Len(px_events) = Len(AmmOnly(PoolInstructions))

\* C12 witness: a pool creation whose post-balances list Mb before Ma has
\* been reported with P, (Ma, Va, 500) and (Mb, Vb, 900).
C12_Witness ==
    /\ px_pc = "done"
    /\ px_result = "ok"
    /\ px_resp.meta.value.post_token_balances
         = Some(<<Balance("Mb", "900"), Balance("Ma", "500")>>)
    /\ px_events = <<[ammAddress |-> "P",
                      tokenA |-> [mintAddress |-> "Ma", vaultAccount |-> "Va",
                                  initialBalance |-> "500"],
                      tokenB |-> [mintAddress |-> "Mb", vaultAccount |-> "Vb",
                                  initialBalance |-> "900"]]>>

\* ---- process_new_pool_detected: faults

\* the call has ended while visiting the AMM instruction px_i
PoolEndedAtInstruction ==
    /\ px_pc = "done"
    /\ get_transaction_data(px_resp).status = "ok"
    /\ px_i \in 1..Len(PoolInstructions)
    /\ IsAmmInstruction(PoolInstructions[px_i])

\* post_token_balances is missing, or has no entry of that mint
BalanceMissing(metadata, mint) ==
    \/ ~metadata.post_token_balances.some
    \/ \A i \in 1..Len(metadata.post_token_balances.value) :
         metadata.post_token_balances.value[i].mint # mint

\* C13 (as claimed): when postTokenBalances is missing or has no entry for
\* one of the two pool mints, the extraction ends in an error returned as a
\* value to its caller (BalanceNotFound), not in a fault.
C13_BalanceNotFoundIsAnError ==
    (/\ PoolEndedAtInstruction
     /\ Len(PoolInstructions[px_i].accounts) >= 12
     /\ \/ BalanceMissing(px_resp.meta.value, At(PoolInstructions[px_i].accounts, 8))
        \/ BalanceMissing(px_resp.meta.value, At(PoolInstructions[px_i].accounts, 9)))
    => px_result = "err"

\* ---- get_transaction_data: faults

\* the ledger has no answer for the signature (not indexed yet, or the fetch
\* failed), or answers without metadata
NotDecodable(resp) == resp.rpc = "err" \/ ~resp.meta.some

\* C14 (as claimed): when the ledger has not indexed the signature, the fetch
\* fails or the metadata is absent, get_transaction_data returns an error
\* value, which its caller returns in turn; the failure is never a fault.
C14_FetchFailureIsAnError ==
    (px_pc = "done" /\ NotDecodable(px_resp)) => px_result = "err"

\* ---- positional account access

\* the call has ended while visiting the AMM instruction sx_i
SwapEndedAtInstruction ==
    /\ sx_pc = "done"
    /\ get_transaction_data(sx_resp).status = "ok"
    /\ sx_i \in 1..Len(SwapInstructions)
    /\ IsAmmInstruction(SwapInstructions[sx_i])

\* C15 (as claimed): the account-list length is checked before indexing; an
\* AMM instruction with fewer than 7 accounts makes the swap extractor end in
\* an error value (DecodeError), never in an out-of-bounds fault.
C15_ShortAccountListIsAnError ==
    (SwapEndedAtInstruction /\ Len(SwapInstructions[sx_i].accounts) < 7)
    => sx_result = "err"

\* ---- which instructions the pool extractor is applied to

\* an AMM instruction whose kind is pool initialisation
IsInitialize(ix) ==
    /\ IsAmmInstruction(ix)
    /\ "data" \in DOMAIN ix
    /\ ix.data = "initialize2"

\* the transaction holds one complete AMM initialize instruction, whose two
\* mints have a post-balance, and other AMM instructions
OneInitializeAmongOthers(resp) ==
    /\ get_transaction_data(resp).status = "ok"
    /\ LET ixs == ParsedInstructions(resp.transaction) IN
         /\ Len(SelectSeq(ixs, IsInitialize)) = 1
         /\ Len(AmmOnly(ixs)) > 1
         /\ LET init == SelectSeq(ixs, IsInitialize)[1] IN
              /\ Len(init.accounts) >= 12
              /\ ~BalanceMissing(resp.meta.value, At(init.accounts, 8))
              /\ ~BalanceMissing(resp.meta.value, At(init.accounts, 9))

\* C16 (as claimed): on a transaction with one AMM initialize instruction and
\* other AMM instructions (a swap), process_new_pool_detected reports exactly
\* one event, that of the initialize instruction (unless the balance call of
\* the RPC client failed).
C16_OnlyInitializeIsExtracted ==
    (px_pc = "done" /\ OneInitializeAmongOthers(px_resp) /\ px_result # "err")
    => LET init == SelectSeq(PoolInstructions, IsInitialize)[1] IN
         /\ Len(px_events) = 1
         /\ px_events[1].ammAddress = At(init.accounts, 4)
         /\ px_events[1].tokenA.mintAddress = At(init.accounts, 8)
         /\ px_events[1].tokenB.mintAddress = At(init.accounts, 9)

\* ---- the swap instruction

\* the pubkeys of the list the claim gives, in its order
ClaimedAccountOrder ==
    <<TOKEN_PROGRAM, amm_keys.amm_pool, amm_keys.amm_authority, amm_keys.amm_open_order,
      amm_keys.amm_coin_vault, amm_keys.amm_pc_vault, amm_keys.market_program,
      amm_keys.market, market_keys.bids, market_keys.asks, market_keys.event_queue,
      market_keys.coin_vault, market_keys.pc_vault, market_keys.vault_signer_key,
      token_account_input, token_account_output, owner>>

\* C17: whatever the quote and the user accounts, the account list of the
\* built swap instruction has exactly 17 entries, in the order token program,
\* pool, pool authority, open orders, pool coin vault, pool pc vault,
\* order-book program, market, bids, asks, event queue, market coin vault,
\* market pc vault, vault signer, user input account, user output account,
\* owner; the owner's entry is the only one marked signer.
C17_SwapAccountOrder ==
    swap_ix.some =>
      LET accounts == swap_ix.value.accounts IN
        /\ Len(accounts) = 17
        /\ [i \in 1..Len(accounts) |-> accounts[i].pubkey] = ClaimedAccountOrder
        /\ \A i \in 1..Len(accounts) : accounts[i].is_signer <=> i = 17

\* C17 witness: the instruction has been built from a quote whose bids key
\* is the other quote's asks key, and carries it at the bids position.
C17_Witness ==
    /\ b_pc = "built"
    /\ market_keys = QuoteExchanged.market_keys
    /\ swap_ix.value.accounts[9].pubkey = "asks"
    /\ swap_ix.value.accounts[10].pubkey = "bids"
    /\ swap_ix.value.accounts[17] = AccountMeta_new(owner, TRUE)

\* data is the tag byte 9, then amount_in as 8 bytes little-endian, then
\* min_amount_out as 8 bytes little-endian, and nothing else
SwapDataLayout(data, amountIn, minOut) ==
    /\ Len(data) = 17
    /\ data[1] = 9
    /\ \A k \in 2..17 : data[k] \in 0..255
    /\ \A j \in 1..4 : /\ data[2 * j] + 256 * data[2 * j + 1] = amountIn[j]
                       /\ data[8 + 2 * j] + 256 * data[9 + 2 * j] = minOut[j]

\* the case (tag = 9, amountIn = 1_000_000, minOut = 0)
IsClaimedExample == b_amount_in = <<16960, 15, 0, 0>> /\ b_min_amount_out = <<0, 0, 0, 0>>

\* C18 (as claimed): the data is tag 9, amountIn little-endian, minOut
\* little-endian, and for (9, 1_000_000, 0) it is 25 bytes in total.
C18_SwapDataEncoding_AsClaimed ==
    swap_ix.some =>
      /\ \A j \in 1..4 : /\ swap_ix.value.data[2 * j] + 256 * swap_ix.value.data[2 * j + 1]
                              = b_amount_in[j]
                         /\ swap_ix.value.data[8 + 2 * j] + 256 * swap_ix.value.data[9 + 2 * j]
                              = b_min_amount_out[j]
      /\ swap_ix.value.data[1] = 9
      /\ IsClaimedExample => Len(swap_ix.value.data) = 25

\* C18 (amended): for every amountIn and minOut in 0..2^64-1 the data is the
\* tag byte 9, then amountIn as 8 bytes little-endian, then minOut as 8 bytes
\* little-endian, and nothing else: 17 bytes in total; for (9, 1_000_000, 0)
\* these are 09, 40 42 0F 00 00 00 00 00, 00 00 00 00 00 00 00 00.
C18_SwapDataEncoding ==
    swap_ix.some =>
      /\ SwapDataLayout(swap_ix.value.data, b_amount_in, b_min_amount_out)
      /\ IsClaimedExample =>
           swap_ix.value.data = <<9, 64, 66, 15, 0, 0, 0, 0, 0, 0, 0, 0, 0, 0, 0, 0, 0>>

\* C18 witness: the instruction built for amountIn = 0x0807060504030201 and
\* minOut = 2^64 - 1 carries the bytes 01 .. 08 and eight FF.
C18_Witness ==
    /\ b_pc = "built"
    /\ b_amount_in = <<513, 1027, 1541, 2055>>
    /\ swap_ix.value.data = <<9, 1, 2, 3, 4, 5, 6, 7, 8,
                               255, 255, 255, 255, 255, 255, 255, 255>>

\* ---- the end of the stream

\* C19 (as claimed): when the log stream ends because of a transport-level
\* disconnect, execute_demo returns an error to its caller, not a success.
C19_DisconnectIsAnError ==
    (/\ d_pc = "done"
     /\ subscribed
     /\ stream_state = "disconnected"
     /\ d_failed = 0)
    => d_result = "err"

\* ---- process_new_pool_detected: repeated calls

\* C20: pool-creation extraction is idempotent and stateless across calls: a
\* call on the ledger response of an earlier call, whatever was processed in
\* between, prints the same events with the same fields and ends the same
\* way; when the balance call of the RPC client fails in one of the two, what
\* that call printed until then is a prefix of what the other printed.
C20_PoolExtractionIdempotent ==
    (px_pc = "done" /\ px_kept.some /\ px_kept.value.resp = px_resp)
    => /\ \/ IsPrefix(px_events, px_kept.value.events)
          \/ IsPrefix(px_kept.value.events, px_events)
       /\ (px_result # "err" /\ px_kept.value.result # "err")
            => (px_events = px_kept.value.events /\ px_result = px_kept.value.result)

\* C20 witness: the third call ran on the same pool creation as the first,
\* with another call in between, and printed the same event.
C20_Witness ==
    /\ px_pc = "done"
    /\ px_calls = 3
    /\ px_kept.some
    /\ px_kept.value.call = 1
    /\ px_kept.value.resp = px_resp
    /\ px_result = "ok"
    /\ Len(px_events) = 1
    /\ px_events = px_kept.value.events

\* ---------------------------------------------------- claims: the command

\* two command lines that differ in the flag --simulate-only and in nothing else
DifferOnlyInSimulateOnly(a, b) ==
    /\ a.simulate_only # b.simulate_only
    /\ [a EXCEPT !.simulate_only = b.simulate_only] = b

\* C21 (as claimed): the simulate-only flag decides whether the buy is only
\* simulated: two invocations that differ only in that flag pass different
\* modes to execute_on_creation.
C21_SimulateOnlyDecidesMode ==
    \A i, j \in 1..Len(c_calls) :
      DifferOnlyInSimulateOnly(c_calls[i].args, c_calls[j].args)
        => c_calls[i].mode # c_calls[j].mode

====
